---- MODULE Spec2Model ----
(***************************************************************************)
(* A model of niux3/template-engine: the TemplateEngine class              *)
(* (src/src/TemplateEngine.js) and its shipped plugins (src/src/plugins).  *)
(*                                                                         *)
(* A template is modelled as the sequence of runs the scanner of #compile  *)
(* splits it into: literal text runs and [[ ... ]] markers.  A marker is a *)
(* record whose field k tells which of the source's regular expressions    *)
(* matches it:                                                             *)
(*   text    a literal run, v its characters                               *)
(*   esc     [[= n ]]        escaped output of identifier n                *)
(*   raw     [[- n ]]        raw output of identifier n                    *)
(*   code    [[ n ]]         a code statement with source text n           *)
(*   simple  [[> n ]]        simple partial reference                      *)
(*   params  [[> n k="v" ]]  parameterized partial reference, p its pairs  *)
(*   dyn     [[> (n) ]]      dynamic partial reference, n the variable     *)
(*   extends [[extends:n]]   the layout the template inherits from         *)
(*   block   [[block:n]] ... [[/block]], p the runs between the two tags   *)
(*   callp   the [[- (function(){...})() ]] marker mkRender generates      *)
(*   calld   the [[- (function(){try{...}catch...})() ]] marker generated  *)
(*           for a dynamic reference                                       *)
(* Values and outputs are sequences of one-character strings, so that      *)
(* escaping and concatenation are computed, not assumed.                   *)
(***************************************************************************)
EXTENDS Integers, Sequences, FiniteSets, TLC

VARIABLES
    cache,      \* #cache: the Map, as the sequence of its entries in insertion order
    context,    \* #context: the plugin context; "has" names the properties that exist
    plugins,    \* #plugins
    strict,     \* engine.strict: "undefined", "false" or "true"
    partialApi, \* engine.partial: the setter and the decorators around it, innermost first
    partials,   \* the partials Map of each PartialsPlugin instance: name -> template
    partialTemplates, \* engine._partialTemplates: whether it exists, and the Map
    layoutApi,  \* engine.layout: the LayoutPlugin instance whose setter it is, 0 for none
    layouts,    \* the layouts Map of each LayoutPlugin instance: name -> template
    uses,       \* how many times use() was called
    host,       \* the host of renderFile: whether require is defined, the content
                \* of the template file, and the renderFile calls not yet settled
    last        \* what the last call on the engine did and gave back

vars == <<cache, context, plugins, strict, partialApi, partials, partialTemplates,
          layoutApi, layouts, uses, host, last>>

----------------------------------------------------------------------------
(* Bounds of the model *)

\* The capacity the cache is checked at.  The source fixes #maxCache = 100;
\* every rule of the cache below is written in terms of maxCache alone.
CacheCapacity == 2

\* How many use() calls a behaviour of Spec makes.
MaxInstalls == 1

\* How many render calls may be nested before the host's call stack is
\* exhausted (a RangeError in JavaScript).  Larger than the depth limits of
\* the plugins, so that a limit that is enforced is met before the stack ends.
StackDepth == 11

\* How many renderFile calls may be waiting at the same time.
MaxCalls == 2

----------------------------------------------------------------------------
(* Program constants *)

maxCache == CacheCapacity

MaxPartialDepth == 10

MaxLayoutDepth == 10

----------------------------------------------------------------------------
(* Markers *)

Marker(k, n, p, v, en, pn) == [k |-> k, n |-> n, p |-> p, v |-> v, en |-> en, pn |-> pn]

Text(s)      == Marker("text", "", <<>>, s, "", "")
Esc(x)       == Marker("esc", x, <<>>, <<>>, "", "")
Raw(x)       == Marker("raw", x, <<>>, <<>>, "", "")
Code(s)      == Marker("code", s, <<>>, <<>>, "", "")
Simple(n)    == Marker("simple", n, <<>>, <<>>, "", "")
Params(n, p) == Marker("params", n, p, <<>>, "", "")
Dyn(x)       == Marker("dyn", x, <<>>, <<>>, "", "")

Extends(n)   == Marker("extends", n, <<>>, <<>>, "", "")
Block(n, b)  == Marker("block", n, b, <<>>, "", "")

\* A template given as its characters, for the scanner to split
Source(chars) == Marker("source", "", <<>>, chars, "", "")

IsSource(tpl) == tpl # <<>> /\ tpl[1].k = "source"

\* render(null): a template argument that is not a string and is falsy
NullTpl == <<Marker("null", "", <<>>, <<>>, "", "")>>

----------------------------------------------------------------------------
(* Values *)

Val(ty, s) == [ty |-> ty, s |-> s]
Str(s) == Val("string", s)

\* A value a plugin passes to every routine: the engine, the partials Map of
\* PartialsPlugin instance inst, engine._partialTemplates, the helpers object,
\* the t function, or undefined.  "unbound" stands for a name with no binding.
Ref(r, inst) == [ref |-> r, inst |-> inst]

\* An error: its message, and whether the message includes 'Partial' and
\* 'not defined' (the two tests the dynamic partial's catch makes).
Err(msg, hasPartial, hasNotDefined) == [msg |-> msg, partial |-> hasPartial, notdef |-> hasNotDefined]

NoErr == Err("", FALSE, FALSE)

\* new Error(prefix + err.message)
\* an error rethrown as it is
Unprefixed(prefix, e) == e

\* new Error(prefix + e.message)
Prefixed(prefix, e) == Err(prefix \o e.msg, e.partial, e.notdef)

----------------------------------------------------------------------------
(* The universe the model draws names and statements from *)

\* Partial names.  "my-card" has a hyphen: [a-zA-Z0-9_-]+ matches it, \w+ does not.
\* p1, p2, ... name the partials of a chain: each names the next one, or the
\* first one, or nothing.  There are two more than the depth resolve allows.
ChainNames == <<"p1", "p2", "p3", "p4", "p5", "p6", "p7", "p8", "p9", "p10", "p11", "p12">>

PartialNames == {"h", "c", "my-card"} \cup {ChainNames[i] : i \in DOMAIN ChainNames}

\* \w+ against a partial name
IsWord(n) == n # "my-card"

\* Identifiers a template may name
Idents == {"x", "sel"}

\* A code statement that leaves a block open: [[ const x = { ]]
OpenBrace == "const x = {"

\* The source text a marker the preprocessors left alone has between [[ and ]]
MarkerSource(m) ==
    CASE m.k = "simple" -> "> " \o m.n
      [] m.k = "params" -> "> " \o m.n \o " k=\"v\""
      [] m.k = "dyn"    -> "> (" \o m.n \o ")"
      [] m.k = "extends" -> "extends:" \o m.n
      [] m.k = "block"  -> "/block"
      [] OTHER          -> m.n

\* l1, l2, ... name the layouts of an inheritance chain: each extends the next
\* one, or the first one, or nothing.  There are two more than the depth
\* resolveInheritance allows.
LayoutChain == <<"l1", "l2", "l3", "l4", "l5", "l6", "l7", "l8", "l9", "l10", "l11", "l12">>

\* Layout names
LayoutNames == {"base", "page"} \cup {LayoutChain[i] : i \in DOMAIN LayoutChain}

\* Statements new Function rejects: the open block, every partial reference
\* that reaches the scanner ("> h" is no JavaScript statement), and the layout
\* tags that reach it ("extends" is a reserved word, "/block" opens a regular
\* expression nothing closes; the statements between two block tags do not
\* matter once the closing tag is rejected).
IsSyntaxError(src) ==
    \/ src = OpenBrace
    \/ src = "/block"
    \/ \E n \in LayoutNames : src = "extends:" \o n
    \/ \E n \in PartialNames : src \in {"> " \o n, "> " \o n \o " k=\"v\""}
    \/ \E x \in Idents \cup {""} : src = "> (" \o x \o ")"

\* The message of the host's SyntaxError (its wording is the host's)
SyntaxMessage(src) ==
    CASE src = OpenBrace -> "Unexpected identifier 'output'"
      [] src = "/block"  -> "Invalid regular expression: missing /"
      [] \E n \in LayoutNames : src = "extends:" \o n -> "Unexpected token 'extends'"
      [] OTHER -> "Unexpected token '>'"

----------------------------------------------------------------------------
(* escapeHTML *)

escape(ch) ==
    CASE ch = "&"  -> <<"&", "a", "m", "p", ";">>
      [] ch = "<"  -> <<"&", "l", "t", ";">>
      [] ch = ">"  -> <<"&", "g", "t", ";">>
      [] ch = "\"" -> <<"&", "q", "u", "o", "t", ";">>
      [] ch = "'"  -> <<"&", "#", "3", "9", ";">>
      [] OTHER     -> <<ch>>

\* an escape in several passes, the ampersand's last: the "&" of an entity
\* the earlier passes produced is escaped again
RECURSIVE escapeInPasses(_)
escapeInPasses(str) ==
    IF str = <<>> THEN <<>>
    ELSE (IF Len(escape(Head(str))) > 1
          THEN escape("&") \o Tail(escape(Head(str))) ELSE escape(Head(str)))
         \o escapeInPasses(Tail(str))

\* String(str).replace(/[&<>"']/g, m => map[m])
RECURSIVE escapeHTML(_)
escapeHTML(str) ==
    IF str = <<>> THEN <<>> ELSE escape(Head(str)) \o escapeHTML(Tail(str))

----------------------------------------------------------------------------
(* The cache: a Map iterates its keys in insertion order *)

CacheKeys(c) == {c[i].key : i \in 1..Len(c)}

\* a cache that never answers
CacheHasNever(c, k) == FALSE

CacheHas(c, k) == k \in CacheKeys(c)

CacheGet(c, k) == (CHOOSE i \in 1..Len(c) : c[i].key = k) (* unique: keys are distinct *)

CacheFn(c, k) == c[CacheGet(c, k)].fn

----------------------------------------------------------------------------
(* PartialsPlugin: the preprocessor *)

Digits == {"0", "1", "2", "3", "4", "5", "6", "7", "8", "9"}

\* isNaN(v) of a string of the model's alphabet: true unless v is all digits
\* (the empty string converts to 0 and is handled by the caller)
isNaN(v) == \E i \in 1..Len(v) : v[i] \notin Digits

\* String(+v) for a string of digits: leading zeros go
RECURSIVE NumberString(_)
NumberString(v) ==
    IF Len(v) > 1 /\ Head(v) = "0" THEN NumberString(Tail(v)) ELSE v

\* v === 'true' ? true : v === 'false' ? false : isNaN(v) || v === '' ? v : +v
parseParam(v) ==
    IF v = <<"t", "r", "u", "e">> THEN Val("boolean", v)
    ELSE IF v = <<"f", "a", "l", "s", "e">> THEN Val("boolean", v)
    ELSE IF isNaN(v) \/ v = <<>> THEN Str(v)
    ELSE Val("number", NumberString(v))

\* Object.fromEntries over the key="value" pairs, as pairs <<key, value>>
parseParams(ps) == [i \in 1..Len(ps) |-> <<ps[i][1], parseParam(ps[i][2])>>]

\* mkRender(pName, data): the marker that renders partial n at invocation
mkRender(n, params, en, pn) == Marker("callp", n, params, <<>>, en, pn)

\* step 1: [[> card title="Hello" ]]
replaceParams(tpl, en, pn) ==
    [i \in 1..Len(tpl) |->
        IF tpl[i].k = "params" THEN mkRender(tpl[i].n, parseParams(tpl[i].p), en, pn)
        ELSE tpl[i]]

\* step 2: [[> (varName) ]]; an empty variable name is replaced by ''
RECURSIVE replaceDynamic(_, _, _)
replaceDynamic(tpl, en, pn) ==
    IF tpl = <<>> THEN <<>>
    ELSE LET m == Head(tpl)
             rest == replaceDynamic(Tail(tpl), en, pn)
         IN  IF m.k # "dyn" THEN <<m>> \o rest
             ELSE IF m.n = "" THEN rest
             ELSE <<Marker("calld", m.n, <<>>, <<>>, en, pn)>> \o rest

\* the string a sequence of characters spells
RECURSIVE Join(_)
Join(chars) == IF chars = <<>> THEN "" ELSE Head(chars) \o Join(Tail(chars))

Min(S) == CHOOSE i \in S : \A j \in S : i <= j

Max(S) == CHOOSE i \in S : \A j \in S : i >= j

Ok(tpl) == [ok |-> TRUE, tpl |-> tpl, err |-> NoErr]

Fail(e) == [ok |-> FALSE, tpl |-> <<>>, err |-> e]

\* simple references looked up when the routine runs, as the other two kinds are
resolveLate(s, d, reg) ==
    Ok([i \in 1..Len(s) |->
          IF s[i].k = "simple" /\ IsWord(s[i].n) THEN mkRender(s[i].n, <<>>, "__e", "__p")
          ELSE s[i]])

\* a guard that stops one level early
TooDeepAtMax(d) == d >= MaxPartialDepth

\* if (d > 10) throw ...
TooDeep(d) == d > MaxPartialDepth

\* step 3: [[> header ]], resolved recursively against the registry reg
RECURSIVE resolve(_, _, _)
resolve(s, d, reg) ==
    IF TooDeep(d)
    THEN Fail(Err("Partial nesting too deep (max 10 levels)", TRUE, FALSE))
    ELSE IF s = <<>> THEN Ok(<<>>)
    ELSE LET m == Head(s)
         IN  IF m.k = "simple" /\ IsWord(m.n)
             THEN IF m.n \notin DOMAIN reg
                  THEN Fail(Err("Partial \"" \o m.n \o "\" not found", TRUE, FALSE))
                  ELSE LET sub == resolve(reg[m.n], d + 1, reg)
                       IN  IF ~sub.ok THEN sub
                           ELSE LET rest == resolve(Tail(s), d, reg)
                                IN  IF ~rest.ok THEN rest ELSE Ok(sub.tpl \o rest.tpl)
             ELSE LET rest == resolve(Tail(s), d, reg)
                  IN  IF ~rest.ok THEN rest ELSE Ok(<<m>> \o rest.tpl)

\* the preprocessor PartialsPlugin pushes
PartialsPreprocessor(tpl, reg) ==
    resolve(replaceDynamic(replaceParams(tpl, "__e", "__p"), "__e", "__p"), 0, reg)

----------------------------------------------------------------------------
(* LayoutPlugin: the preprocessor.  The templates of the model nest no block *)
(* inside a block and use no [[parent]] tag.                                 *)

RECURSIVE TrimStart(_)
TrimStart(chars) ==
    IF chars # <<>> /\ Head(chars) = " " THEN TrimStart(Tail(chars)) ELSE chars

RECURSIVE TrimEnd(_)
TrimEnd(chars) ==
    IF chars # <<>> /\ chars[Len(chars)] = " "
    THEN TrimEnd(SubSeq(chars, 1, Len(chars) - 1)) ELSE chars

\* String.prototype.trim on the runs between two block tags
trim(body) ==
    LET left == IF body # <<>> /\ body[1].k = "text"
                THEN <<Text(TrimStart(body[1].v))>> \o Tail(body) ELSE body
        n == Len(left)
        both == IF n > 0 /\ left[n].k = "text"
                THEN SubSeq(left, 1, n - 1) \o <<Text(TrimEnd(left[n].v))>> ELSE left
    IN  SelectSeq(both, LAMBDA m : ~(m.k = "text" /\ m.v = <<>>))

\* blocks[blockName] = template.substring(startPos, endPos).trim(); of two
\* blocks with one name the later one stays
extractBlocks(template) ==
    LET names == {template[i].n : i \in {j \in 1..Len(template) : template[j].k = "block"}}
    IN  [n \in names |->
            trim(template[Max({i \in 1..Len(template) :
                                  template[i].k = "block" /\ template[i].n = n})].p)]

\* template.match(/\[\[extends:(\w+)\]\]/): the first one, "" for null
extractExtends(template) ==
    LET E == {i \in 1..Len(template) : template[i].k = "extends" /\ IsWord(template[i].n)}
    IN  IF E = {} THEN "" ELSE template[Min(E)].n

\* the root template: every block replaced by
\* childBlocks[blockName] || templateBlocks[blockName]
RECURSIVE replaceBlocks(_, _, _)
replaceBlocks(template, childBlocks, templateBlocks) ==
    IF template = <<>> THEN <<>>
    ELSE LET m == Head(template)
             rest == replaceBlocks(Tail(template), childBlocks, templateBlocks)
         IN  IF m.k # "block" THEN <<m>> \o rest
             ELSE IF m.n \in DOMAIN childBlocks /\ childBlocks[m.n] # <<>>
             THEN childBlocks[m.n] \o rest
             ELSE templateBlocks[m.n] \o rest

\* { ...templateBlocks, ...resolvedChildBlocks }
mergedBlocks(templateBlocks, childBlocks) ==
    [n \in DOMAIN templateBlocks \cup DOMAIN childBlocks |->
        IF n \in DOMAIN childBlocks THEN childBlocks[n] ELSE templateBlocks[n]]

\* a guard that refuses the last level it should allow
LayoutTooDeepAtMax(depth) == depth >= MaxLayoutDepth

\* if (depth > 10)
LayoutTooDeep(depth) == depth > MaxLayoutDepth

RECURSIVE resolveInheritance(_, _, _, _)
resolveInheritance(template, childBlocks, depth, reg) ==
    IF LayoutTooDeep(depth)
    THEN Fail(Err("Layout inheritance too deep (max 10 levels)", FALSE, FALSE))
    ELSE LET layoutName == extractExtends(template)
             templateBlocks == extractBlocks(template)
         IN  IF layoutName = ""
             THEN Ok(replaceBlocks(template, childBlocks, templateBlocks))
             ELSE IF layoutName \notin DOMAIN reg
             THEN Fail(Err("Layout \"" \o layoutName \o "\" not found", FALSE, FALSE))
             ELSE resolveInheritance(reg[layoutName], mergedBlocks(templateBlocks, childBlocks),
                                     depth + 1, reg)

\* the preprocessor LayoutPlugin unshifts
LayoutPreprocessor(template, reg) ==
    LET r == resolveInheritance(template, <<>>, 0, reg)
    IN  IF r.ok THEN r ELSE Fail(Prefixed("Layout resolution failed: ", r.err))

----------------------------------------------------------------------------
(* StrictModePlugin: the wrapper *)

\* fnCode: the scope the statements run in and the statements themselves
FnCode(scope, code) == [scope |-> scope, code |-> code]

\* a wrapper that does not read engine.strict
StrictWrapperAlways(fnCode, innerCode) == FnCode("proxy", innerCode)

\* (fnCode, innerCode) => engine.strict ? `... with(proxy) { innerCode }` : fnCode
StrictWrapper(fnCode, innerCode) ==
    IF strict # "true" THEN fnCode ELSE FnCode("proxy", innerCode)

----------------------------------------------------------------------------
(* TemplateEngine.#compile *)

\* context.<list> || []
ContextList(name) == IF name \in context.has THEN context[name] ELSE <<>>

\* one preprocessor of context.preprocessors applied to a template
ApplyPreprocessor(pp, tpl) ==
    CASE pp.ref = "PartialsPlugin" -> PartialsPreprocessor(tpl, partials[pp.inst])
      [] pp.ref = "LayoutPlugin" -> LayoutPreprocessor(tpl, layouts[pp.inst])
      [] pp.ref = "withParams" -> Ok(replaceParams(tpl, "__e", "__p"))
      [] pp.ref = "ParamsPartialsPlugin" ->
            Ok(replaceParams(tpl, "__engineParams", "__partialsParams"))
      [] pp.ref = "DynamicPartialsPlugin" ->
            Ok(replaceDynamic(tpl, "__engine", "__partials"))

\* One call of a hook made by #compile: the i-th function of the list `hook`
\* ("preprocessors" or "wrappers"), or the scanner ("scan") or new Function
\* ("construct"); fn the function called, arg and inner what it was given
\* (inner is the second argument of a wrapper), out what it returned, ok
\* whether it returned.
HookCall(hook, i, fn, arg, inner, out, ok) ==
    [hook |-> hook, i |-> i, fn |-> fn, arg |-> arg, inner |-> inner, out |-> out, ok |-> ok]

\* context.preprocessors.forEach(fn => { processedTpl = fn(processedTpl) }):
\* n counts the preprocessors invoked, calls lists them; the first one that
\* throws ends the loop
RECURSIVE RunPreprocessors(_, _, _, _)

\* a loop that hands the next preprocessor the same text as this one
NextPreprocessorOnRaw(pps, tpl, n, calls, r) ==
    IF ~r.ok THEN [ok |-> FALSE, tpl |-> <<>>, err |-> r.err, n |-> n + 1,
                   calls |-> Append(calls, HookCall("preprocessors", n + 1, Head(pps),
                                                    tpl, <<>>, <<>>, FALSE))]
    ELSE RunPreprocessors(Tail(pps), tpl, n + 1,
                          Append(calls, HookCall("preprocessors", n + 1, Head(pps),
                                                 tpl, <<>>, r.tpl, TRUE)))

\* r is what the preprocessor Head(pps) returned or threw, given tpl
NextPreprocessor(pps, tpl, n, calls, r) ==
    IF ~r.ok THEN [ok |-> FALSE, tpl |-> <<>>, err |-> r.err, n |-> n + 1,
                   calls |-> Append(calls, HookCall("preprocessors", n + 1, Head(pps),
                                                    tpl, <<>>, <<>>, FALSE))]
    ELSE RunPreprocessors(Tail(pps), r.tpl, n + 1,
                          Append(calls, HookCall("preprocessors", n + 1, Head(pps),
                                                 tpl, <<>>, r.tpl, TRUE)))

RunPreprocessors(pps, tpl, n, calls) ==
    IF pps = <<>> THEN [ok |-> TRUE, tpl |-> tpl, err |-> NoErr, n |-> n, calls |-> calls]
    ELSE NextPreprocessor(pps, tpl, n, calls, ApplyPreprocessor(Head(pps), tpl))

\* The scanner and the code generator: one statement per run.  A marker that
\* starts with neither "[[=" nor "[[-" is copied as a code statement.
Statement(m) ==
    IF m.k \in {"text", "esc", "raw", "callp", "calld"} THEN m ELSE Code(MarkerSource(m))

\* One match of the scanner's regular expression: text for m[2], else the
\* kind m[0].slice(0, 3) selects; at the index of the match, src the matched
\* text m[0], expr the text a statement is made of (m[1].trim(), or m[2])
Token(k, at, src, expr) == [k |-> k, at |-> at, src |-> src, expr |-> expr]

\* s[i], or "" past either end
At(s, i) == IF i \in 1..Len(s) THEN s[i] ELSE ""

\* ([\s\S]+?)\]\] from q: the index of the first "]]" that leaves the lazy
\* group at least one character, 0 if there is none
FindClose(s, q) ==
    IF \E e \in (q + 1)..(Len(s) - 1) : s[e] = "]" /\ s[e + 1] = "]"
    THEN Min({e \in (q + 1)..(Len(s) - 1) : s[e] = "]" /\ s[e + 1] = "]"})
    ELSE 0

\* \[\[=?-? at p, where s has "[[": the index the group starts at, 0 if the
\* first alternative does not match at p.  Each optional character is taken
\* if it is there and given back only if the rest cannot match with it.
ContentStart(s, p) ==
    IF At(s, p + 2) = "=" /\ At(s, p + 3) = "-" /\ FindClose(s, p + 4) # 0 THEN p + 4
    ELSE IF At(s, p + 2) = "=" /\ FindClose(s, p + 3) # 0 THEN p + 3
    ELSE IF At(s, p + 2) = "-" /\ FindClose(s, p + 3) # 0 THEN p + 3
    ELSE IF FindClose(s, p + 2) # 0 THEN p + 2
    ELSE 0

\* ([^\[]+) at p, where s[p] is not "[": the index of the last character of the run
RECURSIVE RunEnd(_, _)
RunEnd(s, p) == IF At(s, p + 1) \notin {"[", ""} THEN RunEnd(s, p + 1) ELSE p

\* pre === '[[=' ? ... : pre === '[[-' ? ... : ...
Kind(pre) ==
    IF pre = <<"[", "[", "=">> THEN "esc" ELSE IF pre = <<"[", "[", "-">> THEN "raw" ELSE "code"

\* while ((m = re.exec(processedTpl))) from lastIndex p: exec tries the two
\* alternatives at p and, where neither matches, at the next index
RECURSIVE scan(_, _)

\* the first alternative matched s[p..e+1] with the group s[q..e-1]
marker(s, p, q, e) ==
    <<Token(Kind(SubSeq(s, p, p + 2)), p, SubSeq(s, p, e + 1),
            TrimEnd(TrimStart(SubSeq(s, q, e - 1))))>> \o scan(s, e + 2)

\* the second alternative matched s[p..r]
literal(s, p, r) ==
    <<Token("text", p, SubSeq(s, p, r), SubSeq(s, p, r))>> \o scan(s, r + 1)

\* q is where the group of the first alternative starts at p, 0 if it fails there
matched(s, p, q) ==
    IF q # 0 THEN marker(s, p, q, FindClose(s, q))
    ELSE IF s[p] # "[" THEN literal(s, p, RunEnd(s, p))
    ELSE scan(s, p + 1)

scan(s, p) ==
    IF p > Len(s) THEN <<>>
    ELSE matched(s, p, IF s[p] = "[" /\ At(s, p + 1) = "[" THEN ContentStart(s, p) ELSE 0)

\* code += `output+=${JSON.stringify(m[2])};` for text, else the statement of
\* the marker's kind around c; "src" marks a statement made from characters
TokenStatement(t) ==
    IF t.k = "text" THEN Text(t.src) ELSE Marker(t.k, Join(t.expr), <<>>, t.expr, "src", "")

\* the tokens of a template given as characters (the markers of the other
\* templates are tokens already)
tokenize(tpl) == IF IsSource(tpl) THEN scan(tpl[1].v, 1) ELSE <<>>

codegen(tpl) ==
    IF IsSource(tpl) THEN [i \in 1..Len(tokenize(tpl)) |-> TokenStatement(tokenize(tpl)[i])]
    ELSE [i \in 1..Len(tpl) |-> Statement(tpl[i])]

\* one wrapper of context.wrappers
ApplyWrapper(w, fnCode, innerCode) ==
    CASE w.ref = "StrictModePlugin" -> StrictWrapper(fnCode, innerCode)

\* context.wrappers.forEach(fn => { fnCode = fn(fnCode, code) }): n counts the
\* wrappers invoked, calls lists them
RECURSIVE RunWrappers(_, _, _, _, _)
\* out is what the wrapper Head(ws) returned, given fnCode and innerCode
NextWrapper(ws, fnCode, innerCode, n, calls, out) ==
    RunWrappers(Tail(ws), out, innerCode, n + 1,
                Append(calls, HookCall("wrappers", n + 1, Head(ws), fnCode, innerCode,
                                       out, TRUE)))

RunWrappers(ws, fnCode, innerCode, n, calls) ==
    IF ws = <<>> THEN [fnCode |-> fnCode, calls |-> calls]
    ELSE NextWrapper(ws, fnCode, innerCode, n, calls,
                     ApplyWrapper(Head(ws), fnCode, innerCode))

\* the statements of the body new Function cannot parse
\* an identifier of the scanner's alphabet: x, xx, xxx
IsIdentifier(expr) == expr # <<>> /\ \A i \in 1..Len(expr) : expr[i] = "x"

\* The statements made from characters that new Function parses, among the
\* expressions of at most three characters of the scanner's alphabet:
\* escapeHTML(c) takes an expression or nothing, output+=c an expression, and
\* a code statement is an expression statement or empty.
Parses(k, expr) ==
    \/ IsIdentifier(expr)
    \/ Join(expr) \in {"-x", "[]", "--x", "x--", "x-x", "x=x", "[x]", "-xx", "-[]",
                       "- x", "[ ]"}
    \/ k \in {"esc", "code"} /\ expr = <<>>

\* the statements of the body new Function cannot parse
SyntaxErrors(code) ==
    {i \in 1..Len(code) :
        IF code[i].en = "src" THEN ~Parses(code[i].k, code[i].v)
        ELSE code[i].k = "code" /\ IsSyntaxError(code[i].n)}

\* the message of the SyntaxError for statement m
StatementMessage(m) == IF m.en = "src" THEN "Unexpected token" ELSE SyntaxMessage(m.n)

NoFn == [params |-> <<>>, scope |-> "", code |-> <<>>]

\* What one call of #compile did: the template, whether the cache answered,
\* how many preprocessors and wrappers ran, whether a routine was constructed,
\* which stage threw ("", "preprocessor" or "construct") with what message,
\* the routine it returned, and the hook calls it made, in the order it made
\* them.
CompileEvent(tpl, hit, pre, wrap, built, threw, under, fn, calls) ==
    [tpl |-> tpl, hit |-> hit, pre |-> pre, wrap |-> wrap, built |-> built,
     threw |-> threw, under |-> under, fn |-> fn, calls |-> calls]

\* a full cache that evicts nothing
EvictNothing(c) == c

\* a full cache that evicts its newest key
EvictNewest(c) == IF Len(c) >= maxCache THEN SubSeq(c, 1, Len(c) - 1) ELSE c

\* the oldest key leaves a full cache: this.#cache.delete(this.#cache.keys().next().value)
Evict(c) == IF Len(c) >= maxCache THEN Tail(c) ELSE c

\* this.#cache.set(cacheKey, fn), for a key the cache does not hold
CacheSet(c, key, fn) == Append(c, [key |-> key, fn |-> fn])

\* a construction that makes room in the cache before it tries new Function
constructAfterEvict(tpl, c, pre, wrap, fn, bad, calls) ==
    IF bad # {}
    THEN [ok |-> FALSE, fn |-> NoFn, cache |-> Evict(c),
          err |-> Err("Template compilation failed: " \o StatementMessage(fn.code[Min(bad)]),
                      FALSE, FALSE),
          ev |-> CompileEvent(tpl, FALSE, pre, wrap, FALSE, "construct",
                              StatementMessage(fn.code[Min(bad)]), NoFn, calls)]
    ELSE [ok |-> TRUE, fn |-> fn, cache |-> CacheSet(Evict(c), tpl, fn), err |-> NoErr,
          ev |-> CompileEvent(tpl, FALSE, pre, wrap, TRUE, "", "", fn, calls)]

\* try { new Function(...params, fnCode); evict; set } catch { throw ... }:
\* fn is the routine new Function would give, bad its statements that do not parse
construct(tpl, c, pre, wrap, fn, bad, calls) ==
    IF bad # {}
    THEN [ok |-> FALSE, fn |-> NoFn, cache |-> c,
          err |-> Err("Template compilation failed: " \o StatementMessage(fn.code[Min(bad)]),
                      FALSE, FALSE),
          ev |-> CompileEvent(tpl, FALSE, pre, wrap, FALSE, "construct",
                              StatementMessage(fn.code[Min(bad)]), NoFn,
                              Append(calls, HookCall("construct", 0, <<>>,
                                                     FnCode(fn.scope, fn.code), <<>>,
                                                     NoFn, FALSE)))]
    ELSE [ok |-> TRUE, fn |-> fn, cache |-> CacheSet(Evict(c), tpl, fn), err |-> NoErr,
          ev |-> CompileEvent(tpl, FALSE, pre, wrap, TRUE, "", "", fn,
                              Append(calls, HookCall("construct", 0, <<>>,
                                                     FnCode(fn.scope, fn.code), <<>>,
                                                     fn, TRUE)))]

\* wr is what the wrappers left
wrapped(tpl, c, pre, wrap, wr) ==
    construct(tpl, c, pre, wrap,
              [params |-> <<"data", "escapeHTML">> \o ContextList("extraParams"),
               scope |-> wr.fnCode.scope, code |-> wr.fnCode.code],
              SyntaxErrors(wr.fnCode.code), wr.calls)

\* code is the generated code: let fnCode = `with(data) { ${code} }`, then the wrappers
generated(tpl, c, pre, code, calls) ==
    wrapped(tpl, c, pre, Len(ContextList("wrappers")),
            RunWrappers(ContextList("wrappers"), FnCode("with", code), code, 0, calls))

\* pr is what the preprocessors gave; one that throws ends #compile
preprocessed(tpl, c, pr) ==
    IF ~pr.ok
    THEN [ok |-> FALSE, fn |-> NoFn, cache |-> c, err |-> pr.err,
          ev |-> CompileEvent(tpl, FALSE, pr.n, 0, FALSE, "preprocessor", pr.err.msg, NoFn,
                              pr.calls)]
    ELSE generated(tpl, c, pr.n, codegen(pr.tpl),
                   Append(pr.calls, HookCall("scan", 0, <<>>, pr.tpl, <<>>,
                                             codegen(pr.tpl), TRUE)))

compile(tpl, c) ==
    IF CacheHas(c, tpl)
    THEN [ok |-> TRUE, fn |-> CacheFn(c, tpl), cache |-> c, err |-> NoErr,
          ev |-> CompileEvent(tpl, TRUE, 0, 0, FALSE, "", "", CacheFn(c, tpl), <<>>)]
    ELSE preprocessed(tpl, c, RunPreprocessors(ContextList("preprocessors"), tpl, 0, <<>>))

----------------------------------------------------------------------------
(* Invoking a routine, and TemplateEngine.render *)

\* The argument a parameter name is bound to when a routine compiled with the
\* formal parameters params is called with args: "unbound" when no parameter
\* has the name, "undefined" when the call passes fewer arguments.  Of two
\* parameters with one name the later one binds.
BoundTo(params, args, name) ==
    LET I == {i \in 1..Len(params) : params[i] = name}
    IN  IF I = {} THEN Ref("unbound", 0)
        ELSE IF Max(I) <= Len(args) THEN args[Max(I)] ELSE Ref("undefined", 0)

\* the get trap of the strict proxy, for a property the with statement found
ProxyGet(data, x) ==
    IF x \notin DOMAIN data
    THEN [ok |-> FALSE, val |-> Val("undefined", <<>>),
          err |-> Err("Variable \"" \o x \o "\" is not defined", FALSE, TRUE)]
    ELSE [ok |-> TRUE, val |-> data[x], err |-> NoErr]

\* An identifier read inside with(data) or with(proxy).  The with statement
\* asks the object whether it has the property (the proxy has no has trap, so
\* the data object answers); only then is the property read.  A name the object
\* lacks is looked up among the routine's parameters, then fails.
Lookup(x, data, fn, args) ==
    IF x \in DOMAIN data
    THEN IF fn.scope = "proxy" THEN ProxyGet(data, x)
         ELSE [ok |-> TRUE, val |-> data[x], err |-> NoErr]
    ELSE IF BoundTo(fn.params, args, x).ref # "unbound"
    THEN [ok |-> TRUE, val |-> Val("object", <<>>), err |-> NoErr]
    ELSE [ok |-> FALSE, val |-> Val("undefined", <<>>),
          err |-> Err(x \o " is not defined", FALSE, TRUE)]

\* a merge in which the data win over the parameters
MergeDataFirst(data, params) ==
    LET keys == {params[i][1] : i \in 1..Len(params)}
    IN  [k \in DOMAIN data \cup keys |->
            IF k \in DOMAIN data THEN data[k]
            ELSE params[Max({i \in 1..Len(params) : params[i][1] = k})][2]]

\* Object.assign({}, data, params)
Merge(data, params) ==
    LET keys == {params[i][1] : i \in 1..Len(params)}
    IN  [k \in DOMAIN data \cup keys |->
            IF k \in keys
            THEN params[Max({i \in 1..Len(params) : params[i][1] = k})][2]
            ELSE data[k]]

\* What a call gives back: a value or a thrown error, the cache after it and
\* the #compile calls it made, in order.
Returned(out, c, ev) == [ok |-> TRUE, out |-> out, err |-> NoErr, cache |-> c, ev |-> ev]

Thrown(e, c, ev) == [ok |-> FALSE, out |-> <<>>, err |-> e, cache |-> c, ev |-> ev]

\* __p.get(name) on the object the parameter pn is bound to
RegistryGet(fn, args, pn, name) ==
    LET P == BoundTo(fn.params, args, pn)
        reg == IF P.ref = "partials" THEN partials[P.inst] ELSE partialTemplates.map
    IN  IF P.ref = "unbound"
        THEN Fail(Err(pn \o " is not defined", FALSE, TRUE))
        ELSE IF P.ref \notin {"partials", "_partialTemplates"}
        THEN Fail(Err("Cannot read properties of undefined (reading 'get')", FALSE, FALSE))
        ELSE Ok(IF name \in DOMAIN reg THEN reg[name] ELSE <<>>)

PartialNotFound(name) == Err("Partial \"" \o name \o "\" not found", TRUE, FALSE)

StackOverflow == Err("Maximum call stack size exceeded", FALSE, FALSE)

RECURSIVE render(_, _, _, _)
RECURSIVE run(_, _, _, _, _, _)

\* __e.render(t, data) called from inside a running routine
nestedRender(fn, args, en, tpl, data, c, depth) ==
    CASE BoundTo(fn.params, args, en).ref = "unbound" ->
            Thrown(Err(en \o " is not defined", FALSE, TRUE), c, <<>>)
      [] BoundTo(fn.params, args, en).ref \notin {"unbound", "engine"} ->
            Thrown(Err("Cannot read properties of undefined (reading 'render')", FALSE, FALSE),
                   c, <<>>)
      [] BoundTo(fn.params, args, en).ref = "engine" /\ depth + 1 > StackDepth ->
            Thrown(StackOverflow, c, <<>>)
      [] OTHER -> render(tpl, data, c, depth + 1)

\* (function(){const t=__p.get(n);if(!t)throw ...;return __e.render(t,Object.assign({},data,params))})()
callPartial(t, fn, args, data, c, depth) ==
    LET g == RegistryGet(fn, args, t.pn, t.n)
    IN  CASE ~g.ok -> Thrown(g.err, c, <<>>)
          [] g.ok /\ g.tpl = <<>> -> Thrown(PartialNotFound(t.n), c, <<>>)
          [] OTHER -> nestedRender(fn, args, t.en, g.tpl, Merge(data, t.p), c, depth)

\* (function(){try{const n=acc;if(typeof n!=='string')return '';const t=__p.get(n);
\*  if(!t)throw ...;return __e.render(t,data)}catch(e){if(e.message&&(e.message.includes('Partial')
\*  ||e.message.includes('not defined')))throw e;return ''}})()
\* the catch clause, r what the try block returned or threw
caught(r) ==
    CASE r.ok -> r
      [] ~r.ok /\ (r.err.partial \/ r.err.notdef) -> r
      [] OTHER -> Returned(<<>>, r.cache, r.ev)

\* the try block, n the value of the variable
selected(t, fn, args, data, c, depth, n) ==
    LET name == Join(n.val.s)
        g == RegistryGet(fn, args, t.pn, name)
    IN  CASE ~n.ok -> Thrown(n.err, c, <<>>)
          [] n.ok /\ n.val.ty # "string" -> Returned(<<>>, c, <<>>)
          [] n.ok /\ n.val.ty = "string" /\ ~g.ok -> Thrown(g.err, c, <<>>)
          [] n.ok /\ n.val.ty = "string" /\ g.ok /\ g.tpl = <<>> ->
                Thrown(PartialNotFound(name), c, <<>>)
          [] OTHER -> nestedRender(fn, args, t.en, g.tpl, data, c, depth)

callDynamic(t, fn, args, data, c, depth) ==
    caught(selected(t, fn, args, data, c, depth, Lookup(t.n, data, fn, args)))

\* Number(v) of a string of digits, and String(n) of an integer
DigitSeq == <<"0", "1", "2", "3", "4", "5", "6", "7", "8", "9">>

RECURSIVE ToNumber(_)
ToNumber(v) ==
    IF v = <<>> THEN 0
    ELSE 10 * ToNumber(SubSeq(v, 1, Len(v) - 1))
         + (CHOOSE d \in 0..9 : DigitSeq[d + 1] = v[Len(v)])

RECURSIVE NumberToString(_)
NumberToString(n) ==
    IF n < 0 THEN <<"-">> \o NumberToString(0 - n)
    ELSE IF n < 10 THEN <<DigitSeq[n + 1]>>
    ELSE NumberToString(n \div 10) \o <<DigitSeq[(n % 10) + 1]>>

NaN == Val("number", <<"N", "a", "N">>)

\* String(undefined)
Undefined == Val("undefined", <<"u", "n", "d", "e", "f", "i", "n", "e", "d">>)

\* the identifier an expression made from characters reads, <<>> if none
Reads(expr) ==
    IF IsIdentifier(expr) THEN expr
    ELSE IF Join(expr) \in {"-x", "- x", "--x", "x--", "x-x", "x=x", "[x]"} THEN <<"x">>
    ELSE IF Join(expr) = "-xx" THEN <<"x", "x">>
    ELSE <<>>

\* the value of an expression made from characters, v the value of the
\* identifier it reads: -x, --x and x-x convert v to a number, x-- gives the
\* number v converts to, [x] and x=x give v, [] converts to "" and -[] to 0
Value(expr, v) ==
    CASE expr = <<>> -> Undefined
      [] Join(expr) \in {"[]", "[ ]"} -> Str(<<>>)
      [] Join(expr) = "-[]" -> Val("number", <<"0">>)
      [] IsIdentifier(expr) \/ Join(expr) \in {"x=x", "[x]"} -> v
      [] v.ty \notin {"string", "number"} \/ isNaN(v.s) -> NaN
      [] Join(expr) \in {"-x", "- x", "-xx"} -> Val("number", NumberToString(0 - ToNumber(v.s)))
      [] Join(expr) = "--x" -> Val("number", NumberToString(ToNumber(v.s) - 1))
      [] Join(expr) = "x--" -> Val("number", NumberToString(ToNumber(v.s)))
      [] Join(expr) = "x-x" -> Val("number", <<"0">>)

\* r is what reading the identifier of the expression gave
evaluated(expr, r) == IF r.ok THEN [r EXCEPT !.val = Value(expr, r.val)] ELSE r

\* the expression of an output marker or a code statement, in with(data)
Eval(t, data, fn, args) ==
    IF t.en # "src" THEN Lookup(t.n, data, fn, args)
    ELSE IF Reads(t.v) = <<>>
    THEN [ok |-> TRUE, val |-> Value(t.v, Undefined), err |-> NoErr]
    ELSE evaluated(t.v, Lookup(Join(Reads(t.v)), data, fn, args))

\* output += escapeHTML(v) or output += v, v what the expression gave
output(t, c, v) ==
    IF ~v.ok THEN Thrown(v.err, c, <<>>)
    ELSE IF t.k = "esc" THEN Returned(escapeHTML(v.val.s), c, <<>>)
    ELSE IF t.k = "raw" THEN Returned(v.val.s, c, <<>>)
    ELSE Returned(<<>>, c, <<>>)

\* one statement of the routine body
statement(t, fn, args, data, c, depth) ==
    CASE t.k = "text" -> Returned(t.v, c, <<>>)
      [] t.k \in {"esc", "raw"} -> output(t, c, Eval(t, data, fn, args))
      [] t.k = "code" /\ t.en = "src" -> output(t, c, Eval(t, data, fn, args))
      [] t.k = "callp" -> callPartial(t, fn, args, data, c, depth)
      [] t.k = "calld" -> callDynamic(t, fn, args, data, c, depth)
      [] OTHER -> Returned(<<>>, c, <<>>)

\* output += <first> and then <rest>
appended(first, rest) ==
    IF rest.ok THEN Returned(first.out \o rest.out, rest.cache, first.ev \o rest.ev)
    ELSE Thrown(rest.err, rest.cache, first.ev \o rest.ev)

\* a routine that ends once the cache no longer holds it
continuedWhileCached(code, fn, args, data, depth, first) ==
    IF first.ok /\ \E i \in 1..Len(first.cache) : first.cache[i].fn = fn
    THEN appended(first, run(Tail(code), fn, args, data, first.cache, depth))
    ELSE first

\* first is what the first statement gave; one that throws ends the routine
continued(code, fn, args, data, depth, first) ==
    IF first.ok
    THEN appended(first, run(Tail(code), fn, args, data, first.cache, depth))
    ELSE first

\* the routine body: let output=""; <statements> return output;
run(code, fn, args, data, c, depth) ==
    IF code = <<>> THEN Returned(<<>>, c, <<>>)
    ELSE continued(code, fn, args, data, depth, statement(Head(code), fn, args, data, c, depth))

\* a guard that lets every template through
FalsyNever(tpl) == FALSE

\* !tpl
Falsy(tpl) == tpl = <<>> \/ tpl = NullTpl \/ tpl = <<Source(<<>>)>>

\* render without the extra arguments of the context
RenderArgsOwn == <<Ref("data", 0), Ref("escapeHTML", 0)>>

\* const args = [data, this.#escapeHTML, ...(this.#context.extraArgs || [])]
RenderArgs == <<Ref("data", 0), Ref("escapeHTML", 0)>> \o ContextList("extraArgs")

\* render(tpl, data): stage names where the call ended ("guard", "compile",
\* "invoke" or "done"), under the error caught there, args the argument list
\* the call built
Outcome(r, stage, under, args) ==
    [ok |-> r.ok, out |-> r.out, err |-> r.err, cache |-> r.cache, ev |-> r.ev,
     stage |-> stage, under |-> under, args |-> args]

\* a render that drops the routine from the cache when its invocation throws
invokedOrForgotten(cr, ir) ==
    IF ir.ok
    THEN Outcome(Returned(ir.out, ir.cache, <<cr.ev>> \o ir.ev), "done", "", RenderArgs)
    ELSE Outcome(Thrown(Prefixed("Template render failed: ", ir.err),
                        SelectSeq(ir.cache, LAMBDA e : e.key # cr.ev.tpl),
                        <<cr.ev>> \o ir.ev), "invoke", ir.err.msg, RenderArgs)

\* ir is what the routine returned or threw
invoked(cr, ir) ==
    IF ir.ok
    THEN Outcome(Returned(ir.out, ir.cache, <<cr.ev>> \o ir.ev), "done", "", RenderArgs)
    ELSE Outcome(Thrown(Prefixed("Template render failed: ", ir.err), ir.cache,
                        <<cr.ev>> \o ir.ev), "invoke", ir.err.msg, RenderArgs)

\* cr is what #compile returned or threw, inside the try block of render
compiled(data, depth, cr) ==
    IF ~cr.ok
    THEN Outcome(Thrown(Prefixed("Template render failed: ", cr.err), cr.cache, <<cr.ev>>),
                 "compile", cr.err.msg, RenderArgs)
    ELSE invoked(cr, run(cr.fn.code, cr.fn, RenderArgs, data, cr.cache, depth))

render(tpl, data, c, depth) ==
    IF Falsy(tpl)
    THEN Outcome(Thrown(Err("Template required", FALSE, FALSE), c, <<>>), "guard", "", <<>>)
    ELSE compiled(data, depth, compile(tpl, c))

----------------------------------------------------------------------------
(* The plugins: what plugin(engine, ctx) does to the engine and the context *)

\* The engine as a plugin sees it
Engine == [context |-> context, strict |-> strict, partialApi |-> partialApi,
           partials |-> partials, partialTemplates |-> partialTemplates,
           layoutApi |-> layoutApi, layouts |-> layouts, threw |-> FALSE]

\* if (!ctx.f) ctx.f = []
Ensure(e, f) ==
    IF f \in e.context.has THEN e
    ELSE [e EXCEPT !.context.has = @ \cup {f}, !.context[f] = <<>>]

\* ctx.f.push(...xs)
Push(e, f, xs) == [e EXCEPT !.context[f] = @ \o xs]

\* ctx.preprocessors.unshift(pp): a TypeError when ctx.preprocessors is undefined
Unshift(e, f, x) ==
    IF f \notin e.context.has THEN [e EXCEPT !.threw = TRUE]
    ELSE [e EXCEPT !.context[f] = <<x>> \o @]

PartialsPlugin(e) ==
    LET inst == Len(e.partials) + 1
        e1 == [e EXCEPT !.partials = Append(@, <<>>),
                        !.partialApi = <<Ref("PartialsPlugin", inst)>>]
        e2 == Push(Ensure(Ensure(e1, "extraParams"), "extraArgs"), "extraParams", <<"__e", "__p">>)
        e3 == Push(e2, "extraArgs", <<Ref("engine", 0), Ref("partials", inst)>>)
    IN  Push(Ensure(e3, "preprocessors"), "preprocessors", <<Ref("PartialsPlugin", inst)>>)

\* a plugin that names a parameter and passes no argument for it
HelpersPluginParamsOnly(e) == Push(Ensure(e, "extraParams"), "extraParams", <<"helpers">>)

HelpersPlugin(e) ==
    LET e1 == Push(Ensure(e, "extraParams"), "extraParams", <<"helpers">>)
    IN  Push(Ensure(e1, "extraArgs"), "extraArgs", <<Ref("helpers", 0)>>)

I18nPlugin(e) ==
    LET e1 == Push(Ensure(e, "extraParams"), "extraParams", <<"t">>)
    IN  Push(Ensure(e1, "extraArgs"), "extraArgs", <<Ref("t", 0)>>)

StrictModePlugin(e) ==
    Push(Ensure([e EXCEPT !.strict = "false"], "wrappers"), "wrappers",
         <<Ref("StrictModePlugin", 0)>>)

AsyncPlugin(e) == e

\* engine._partialTemplates is created when missing; engine.partial is decorated
DecoratePartial(e, who) ==
    [e EXCEPT !.partialTemplates = IF @.exists THEN @ ELSE [exists |-> TRUE, map |-> <<>>],
              !.partialApi = Append(@, Ref(who, 0))]

DynamicPartialsPlugin(e) ==
    LET e1 == DecoratePartial(e, "DynamicPartialsPlugin")
        e2 == Push(Ensure(Ensure(e1, "extraParams"), "extraArgs"), "extraParams",
                   <<"__engine", "__partials">>)
        e3 == Push(e2, "extraArgs", <<Ref("engine", 0), Ref("_partialTemplates", 0)>>)
    IN  Unshift(Ensure(Ensure(e3, "wrappers"), "preprocessors"), "preprocessors",
                Ref("DynamicPartialsPlugin", 0))

ParamsPartialsPlugin(e) ==
    LET e1 == DecoratePartial(e, "ParamsPartialsPlugin")
        e2 == Push(Ensure(Ensure(e1, "extraParams"), "extraArgs"), "extraParams",
                   <<"__engineParams", "__partialsParams">>)
        e3 == Push(e2, "extraArgs", <<Ref("engine", 0), Ref("_partialTemplates", 0)>>)
    IN  Unshift(Ensure(e3, "preprocessors"), "preprocessors", Ref("ParamsPartialsPlugin", 0))

\* a LayoutPlugin that appends its preprocessor instead of prepending it
LayoutPluginPushes(e) ==
    LET inst == Len(e.layouts) + 1
        e1 == [e EXCEPT !.layouts = Append(@, <<>>), !.layoutApi = inst]
    IN  Push(Ensure(e1, "preprocessors"), "preprocessors", <<Ref("LayoutPlugin", inst)>>)

LayoutPlugin(e) ==
    LET inst == Len(e.layouts) + 1
        e1 == [e EXCEPT !.layouts = Append(@, <<>>), !.layoutApi = inst]
    IN  Unshift(Ensure(e1, "preprocessors"), "preprocessors", Ref("LayoutPlugin", inst))

\* the shipped plugins
BasePlugins == {"PartialsPlugin", "HelpersPlugin", "I18nPlugin", "StrictModePlugin",
                "AsyncPlugin", "DynamicPartialsPlugin", "ParamsPartialsPlugin",
                "LayoutPlugin"}

Base(name, e) ==
    CASE name = "PartialsPlugin" -> PartialsPlugin(e)
      [] name = "HelpersPlugin" -> HelpersPlugin(e)
      [] name = "I18nPlugin" -> I18nPlugin(e)
      [] name = "StrictModePlugin" -> StrictModePlugin(e)
      [] name = "AsyncPlugin" -> AsyncPlugin(e)
      [] name = "DynamicPartialsPlugin" -> DynamicPartialsPlugin(e)
      [] name = "ParamsPartialsPlugin" -> ParamsPartialsPlugin(e)
      [] name = "LayoutPlugin" -> LayoutPlugin(e)

\* what withParams adds once basePlugin(engine, ctx) has run;
\* engine._partials is a property nothing sets
paramsDecorator(e0) ==
    IF e0.threw THEN e0
    ELSE Unshift(Push(Push(Ensure(Ensure(e0, "extraParams"), "extraArgs"),
                           "extraParams", <<"__e", "__p">>),
                      "extraArgs", <<Ref("engine", 0), Ref("undefined", 0)>>),
                 "preprocessors", Ref("withParams", 0))

\* withParams(basePlugin)
withParams(base, e) == paramsDecorator(Base(base, e))

\* A plugin value: a shipped plugin, or withParams around one
Plugin(name, base) == [name |-> name, base |-> base]

AllPlugins == {Plugin(n, "") : n \in BasePlugins} \cup {Plugin("withParams", b) : b \in BasePlugins}

Apply(plugin, e) ==
    IF plugin.name = "withParams" THEN withParams(plugin.base, e) ELSE Base(plugin.name, e)

----------------------------------------------------------------------------
(* The templates, partial bodies and data objects the calls are made with *)

Tplain  == <<Text(<<"B">>)>>                      \* B
Tvar    == <<Text(<<"A">>), Esc("x")>>            \* A[[= x ]]
Tsimple == <<Simple("h")>>                        \* [[> h ]]
Tparams == <<Params("h", <<<<"x", <<"7">>>>>>)>>  \* [[> h x="7" ]]
Tdyn    == <<Dyn("sel")>>                         \* [[> (sel) ]]
Topen   == <<Code(OpenBrace)>>                    \* [[ const x = { ]]
Tempty  == <<>>                                   \* the empty string

Templates == {Tplain, Tvar, Tsimple, Tparams, Tdyn, Topen, Tempty, NullTpl}

\* what the partial h is registered as
PartialBodies == {Tplain, Tvar}

NoData == <<>>

\* { x: '<' } and { sel: 'h' }
DataObjects == {"x" :> Str(<<"<">>), "sel" :> Str(<<"h">>)}

----------------------------------------------------------------------------
(* The calls on the engine *)

\* what the caller sees of a render
Observed(r) == [ok |-> r.ok, out |-> r.out, err |-> r.err.msg]

\* what render(t, d) would give the caller in the current state
RenderValue(t, d) == Observed(render(t, d, cache, 0))

\* the partial reference modes a template uses
Modes(t) == {t[i].k : i \in 1..Len(t)} \cap {"simple", "params", "dyn"}

\* what every cached template that references a partial renders to
Outputs ==
    [q \in {t \in CacheKeys(cache) : Modes(t) # {}} \X DataObjects |-> RenderValue(q[1], q[2])]

NoPlugin == Plugin("", "")

\* What the last call did:
\*   op, tpl, data, plugin, name   the call and its arguments
\*   ok, out, err, ret             whether it returned, the string or the error
\*                                 message it gave, whether the engine itself
\*                                 came back (for chaining)
\*   ev, stage, under              the #compile calls a render made, the stage
\*                                 it ended in, the message caught there
\*   was                           the keys the cache held when it was called
\*   args                          the argument list a render built
\*   again, before                 for engine.partial: whether the name was
\*                                 registered already, and what the cached
\*                                 templates rendered to before the call
NoCall ==
    [op |-> "new", tpl |-> <<>>, data |-> NoData, plugin |-> NoPlugin, name |-> "",
     ok |-> TRUE, out |-> <<>>, err |-> "", ret |-> "engine",
     ev |-> <<>>, stage |-> "", under |-> "", was |-> {},
     again |-> FALSE, before |-> <<>>, args |-> <<>>]

\* a renderFile call that is not running
Idle == [pc |-> "idle", data |-> NoData, tpl |-> <<>>]

\* a host with require, one template file, and no renderFile call
NoHost == [require |-> TRUE, file |-> <<>>, calls |-> [i \in 1..MaxCalls |-> Idle]]

\* new TemplateEngine()
Constructed ==
    /\ cache = <<>>
    /\ context = [has |-> {}, preprocessors |-> <<>>, wrappers |-> <<>>,
                  extraParams |-> <<>>, extraArgs |-> <<>>]
    /\ plugins = <<>>
    /\ strict = "undefined"
    /\ partialApi = <<>>
    /\ partials = <<>>
    /\ partialTemplates = [exists |-> FALSE, map |-> <<>>]
    /\ layoutApi = 0
    /\ layouts = <<>>
    /\ uses = 0
    /\ last = NoCall

Init == Constructed /\ host = NoHost

\* e is the engine as plugin(this, this.#context) left it; a plugin that
\* throws is not pushed onto #plugins
Used(plugin, e) ==
    /\ context' = e.context
    /\ strict' = e.strict
    /\ partialApi' = e.partialApi
    /\ partials' = e.partials
    /\ partialTemplates' = e.partialTemplates
    /\ layoutApi' = e.layoutApi
    /\ layouts' = e.layouts
    /\ plugins' = IF e.threw THEN plugins ELSE Append(plugins, plugin)
    /\ last' = [NoCall EXCEPT
                  !.op = "use", !.plugin = plugin, !.ok = ~e.threw,
                  !.err = IF e.threw
                          THEN "Cannot read properties of undefined (reading 'unshift')"
                          ELSE "",
                  !.ret = IF e.threw THEN "" ELSE "engine",
                  !.was = CacheKeys(cache)]
    /\ uses' = uses + 1
    /\ UNCHANGED <<cache, host>>

\* a use that calls the plugin function a second time
UseTwice(plugin) == Used(plugin, Apply(plugin, Apply(plugin, Engine)))

\* use(plugin)
Use(plugin) == Used(plugin, Apply(plugin, Engine))

\* engine.partial(name, tpl): every decorator stores into engine._partialTemplates
\* and calls the function it replaced; the setter of PartialsPlugin stores into
\* its own Map.  A decorator installed over no setter calls undefined.
Partial(name, tpl) ==
    /\ partialApi # <<>>
    /\ LET base == partialApi[1]
           decorated == Len(partialApi) > 1 \/ base.ref # "PartialsPlugin"
           threw == base.ref # "PartialsPlugin"
       IN  /\ partialTemplates' =
                 IF decorated
                 THEN [partialTemplates EXCEPT !.map = (name :> tpl) @@ @]
                 ELSE partialTemplates
           /\ partials' =
                 IF threw THEN partials
                 ELSE [partials EXCEPT ![base.inst] = (name :> tpl) @@ @]
           /\ last' = [NoCall EXCEPT
                         !.op = "partial", !.name = name, !.tpl = tpl, !.ok = ~threw,
                         !.err = IF threw
                                 THEN "Cannot read properties of undefined (reading 'call')"
                                 ELSE "",
                         !.ret = IF threw THEN "" ELSE "engine",
                         !.was = CacheKeys(cache),
                         !.again = IF threw THEN name \in DOMAIN partialTemplates.map
                                   ELSE name \in DOMAIN partials[base.inst],
                         !.before = Outputs]
    /\ UNCHANGED <<host, cache, context, plugins, strict, partialApi, layoutApi, layouts, uses>>

\* engine.layout(name, template)
Layout(name, tpl) ==
    /\ layoutApi # 0
    /\ layouts' = [layouts EXCEPT ![layoutApi] = (name :> tpl) @@ @]
    /\ last' = [NoCall EXCEPT !.op = "layout", !.name = name, !.tpl = tpl,
                              !.was = CacheKeys(cache)]
    /\ UNCHANGED <<host, cache, context, plugins, strict, partialApi, partials, partialTemplates,
                   layoutApi, uses>>

\* engine.strict = b
SetStrict(b) ==
    /\ strict' = b
    /\ last' = [NoCall EXCEPT !.op = "strict", !.ret = "", !.was = CacheKeys(cache)]
    /\ UNCHANGED <<host, cache, context, plugins, partialApi, partials, partialTemplates,
                   layoutApi, layouts, uses>>

\* r is what render(tpl, data) did
Rendered(tpl, data, r) ==
    /\ cache' = r.cache
    /\ last' = [NoCall EXCEPT
                  !.op = "render", !.tpl = tpl, !.data = data, !.ok = r.ok,
                  !.out = r.out, !.err = r.err.msg, !.ret = "",
                  !.ev = r.ev, !.stage = r.stage, !.under = r.under, !.args = r.args,
                  !.was = CacheKeys(cache)]
    /\ UNCHANGED <<host, context, plugins, strict, partialApi, partials, partialTemplates,
                   layoutApi, layouts, uses>>

\* render(tpl, data)
Render(tpl, data) == Rendered(tpl, data, render(tpl, data, cache, 0))

\* a clear() that leaves the cache as it is
ClearKeeps ==
    /\ cache' = cache
    /\ last' = [NoCall EXCEPT !.op = "clear", !.was = CacheKeys(cache)]
    /\ UNCHANGED <<host, context, plugins, strict, partialApi, partials, partialTemplates,
                   layoutApi, layouts, uses>>

\* a clear() that empties the partial registries too
ClearAll ==
    /\ cache' = <<>>
    /\ partials' = [i \in 1..Len(partials) |-> <<>>]
    /\ last' = [NoCall EXCEPT !.op = "clear", !.was = CacheKeys(cache)]
    /\ UNCHANGED <<host, context, plugins, strict, partialApi, partialTemplates,
                   layoutApi, layouts, uses>>

\* clear()
Clear ==
    /\ cache' = <<>>
    /\ last' = [NoCall EXCEPT !.op = "clear", !.was = CacheKeys(cache)]
    /\ UNCHANGED <<host, context, plugins, strict, partialApi, partials, partialTemplates,
                   layoutApi, layouts, uses>>

----------------------------------------------------------------------------
(* The engine with PartialsPlugin: partials are registered and registered   *)
(* again, templates of every reference mode are rendered, the cache is      *)
(* cleared.                                                                 *)

Install == uses < MaxInstalls /\ Use(Plugin("PartialsPlugin", ""))

Register == \E b \in PartialBodies : Partial("h", b)

RenderAny == \E t \in Templates, d \in DataObjects : Render(t, d)

Next == Install \/ Register \/ RenderAny \/ Clear

Spec == Init /\ [][Next]_vars

----------------------------------------------------------------------------
(* The engine with LayoutPlugin and PartialsPlugin, installed in any order   *)
(* and more than once: layouts and partials are registered and registered    *)
(* again, templates that extend a layout or reference a partial are          *)
(* rendered, the cache is cleared.                                           *)

\* How many use() calls a behaviour of SpecLayout or SpecPlugins makes.
MaxUse == 2

Tchild == <<Extends("base")>>                            \* [[extends:base]]
Lplain == <<Block("content", <<Text(<<"V", " ">>)>>)>>   \* [[block:content]]V [[/block]]
Lpartial == <<Block("content", <<Simple("h")>>)>>        \* [[block:content]][[> h ]][[/block]]

LayoutBodies == {Lplain, Lpartial}

LayoutTemplates == {Tchild, Tsimple, Tplain}

\* { x: '<' }
DataX == "x" :> Str(<<"<">>)

InstallLayoutOrPartials ==
    uses < MaxUse /\ \E n \in {"LayoutPlugin", "PartialsPlugin"} : Use(Plugin(n, ""))

RegisterLayout == \E b \in LayoutBodies : Layout("base", b)

RenderLayout == \E t \in LayoutTemplates : Render(t, DataX)

NextLayout == InstallLayoutOrPartials \/ RegisterLayout \/ Register \/ RenderLayout \/ Clear

SpecLayout == Init /\ [][NextLayout]_vars

----------------------------------------------------------------------------
(* The engine with every shipped plugin, bare or decorated by withParams,    *)
(* installed in any order and with repetitions, and templates rendered in    *)
(* between.                                                                  *)

UseAny == uses < MaxUse /\ \E p \in AllPlugins : Use(p)

RenderPlain == \E t \in {Tplain, Tvar} : Render(t, DataX)

NextPlugins == UseAny \/ RenderPlain \/ Clear

SpecPlugins == Init /\ [][NextPlugins]_vars

----------------------------------------------------------------------------
(* The engine with the plugins that hook into #compile (preprocessors and    *)
(* wrappers), the strict flag switched by the caller, and templates rendered *)
(* with and without the variable they read.                                  *)

HookPlugins == {Plugin("PartialsPlugin", ""), Plugin("withParams", "PartialsPlugin"),
                Plugin("StrictModePlugin", ""), Plugin("LayoutPlugin", "")}

UseHook == uses < MaxUse /\ \E p \in HookPlugins : Use(p)

ToggleStrict == \E b \in {"true", "false"} : SetStrict(b)

RenderHook == \E t \in {Tvar, Tparams}, d \in {NoData, DataX} : Render(t, d)

NextHooks == UseHook \/ ToggleStrict \/ RenderHook \/ Clear

SpecHooks == Init /\ [][NextHooks]_vars

\* the registries engine.partial and engine.layout write to
CurrentPartials == IF partialApi = <<>> THEN <<>> ELSE partials[partialApi[1].inst]

CurrentLayouts == IF layoutApi = 0 THEN <<>> ELSE layouts[layoutApi]

----------------------------------------------------------------------------
(* The engine with PartialsPlugin and a chain of partials registered one     *)
(* after the other: p1 first, then the partial the last one names.  A body   *)
(* is plain text (the chain ends), a reference to the next name (the chain   *)
(* goes on), or a reference to p1 (the chain closes into a cycle; p1 naming  *)
(* p1 is the self-reference).  Templates reference p1, a name never          *)
(* registered, and a name with a hyphen.                                     *)

ChainBodies(i) ==
    {Tplain, <<Simple(ChainNames[1])>>}
        \cup (IF i < Len(ChainNames) THEN {<<Simple(ChainNames[i + 1])>>} ELSE {})

RegisterChain ==
    \E i \in DOMAIN ChainNames :
        /\ ChainNames[i] \notin DOMAIN CurrentPartials
        /\ i > 1 => /\ ChainNames[i - 1] \in DOMAIN CurrentPartials
                    /\ CurrentPartials[ChainNames[i - 1]] = <<Simple(ChainNames[i])>>
        /\ \E b \in ChainBodies(i) : Partial(ChainNames[i], b)

RenderReference == \E n \in {"p1", "c", "my-card"} : Render(<<Simple(n)>>, NoData)

NextChains == Install \/ RegisterChain \/ RenderReference \/ Clear

SpecChains == Init /\ [][NextChains]_vars

----------------------------------------------------------------------------
(* The core engine given templates as characters: every string of at most    *)
(* MaxTplLen characters of Alphabet, given to a new engine and rendered with *)
(* a data object that has x.                                                 *)

MaxTplLen == 7

Alphabet == {"[", "]", "=", "-", "x", " "}

Strings(A, n) == UNION {[1..k -> A] : k \in 1..n}

\* { x: '7' }
DataSeven == "x" :> Str(<<"7">>)

\* a new engine and the template and data its caller is about to render
Given(tpl, data) ==
    /\ cache = <<>>
    /\ context = [has |-> {}, preprocessors |-> <<>>, wrappers |-> <<>>,
                  extraParams |-> <<>>, extraArgs |-> <<>>]
    /\ plugins = <<>>
    /\ strict = "undefined"
    /\ partialApi = <<>>
    /\ partials = <<>>
    /\ partialTemplates = [exists |-> FALSE, map |-> <<>>]
    /\ layoutApi = 0
    /\ layouts = <<>>
    /\ uses = 0
    /\ host = NoHost
    /\ last = [NoCall EXCEPT !.op = "given", !.tpl = tpl, !.data = data]

InitScan == \E s \in Strings(Alphabet, MaxTplLen) : Given(<<Source(s)>>, DataSeven)

RenderGiven == last.op = "given" /\ Render(last.tpl, last.data)

NextScan == RenderGiven

SpecScan == InitScan /\ [][NextScan]_vars

----------------------------------------------------------------------------
(* The core engine rendering one variable, escaped or raw, for every value   *)
(* of at most MaxStrLen characters of the five escaped characters and two    *)
(* others.                                                                   *)

MaxStrLen == 3

EscAlphabet == {"&", "<", ">", "\"", "'", "a", ";"}

Tesc == <<Esc("x")>>        \* [[= x ]]
Traw == <<Raw("x")>>        \* [[- x ]]

InitEscape ==
    \E s \in Strings(EscAlphabet, MaxStrLen), t \in {Tesc, Traw} : Given(t, "x" :> Str(s))

NextEscape == RenderGiven

SpecEscape == InitEscape /\ [][NextEscape]_vars

----------------------------------------------------------------------------
(* The engine with PartialsPlugin and partials whose bodies reference        *)
(* partials in the forms resolved at invocation: h is plain text, reads x,   *)
(* includes itself with a parameter or through the variable sel, or includes *)
(* c with a parameter; c is plain text or reads x.  Every template and body  *)
(* holds at most one reference, so the renders of one call nest in a chain.  *)

Tnext == <<Params("c", <<<<"x", <<"7">>>>>>)>>      \* [[> c x="7" ]]

NestedBodies == {Tplain, Tvar, Tparams, Tdyn, Tnext}

\* { sel: 'h' }
DataSel == "sel" :> Str(<<"h">>)

RegisterNested ==
    \/ \E b \in NestedBodies : Partial("h", b)
    \/ \E b \in PartialBodies : Partial("c", b)

RenderNested == \E t \in {Tparams, Tdyn}, d \in {DataX, DataSel} : Render(t, d)

NextNested == Install \/ RegisterNested \/ RenderNested \/ Clear

SpecNested == Init /\ [][NextNested]_vars

----------------------------------------------------------------------------
(* The engine with LayoutPlugin and a chain of layouts registered one after  *)
(* the other: l1 first, then the layout the last one extends.  A layout is   *)
(* plain text (the chain ends), extends the next name (the chain goes on),   *)
(* or extends l1 (the chain closes into a cycle; l1 extending l1 is the      *)
(* shortest one).  Templates extend l1 and a name never registered.          *)

InstallLayout == uses < MaxInstalls /\ Use(Plugin("LayoutPlugin", ""))

LayoutChainBodies(i) ==
    {Tplain, <<Extends(LayoutChain[1])>>}
        \cup (IF i < Len(LayoutChain) THEN {<<Extends(LayoutChain[i + 1])>>} ELSE {})

RegisterLayoutChain ==
    \E i \in DOMAIN LayoutChain :
        /\ LayoutChain[i] \notin DOMAIN CurrentLayouts
        /\ i > 1 => /\ LayoutChain[i - 1] \in DOMAIN CurrentLayouts
                    /\ CurrentLayouts[LayoutChain[i - 1]] = <<Extends(LayoutChain[i])>>
        /\ \E b \in LayoutChainBodies(i) : Layout(LayoutChain[i], b)

RenderExtends == \E n \in {"l1", "base"} : Render(<<Extends(n)>>, NoData)

NextInherit == InstallLayout \/ RegisterLayoutChain \/ RenderExtends \/ Clear

SpecInherit == Init /\ [][NextInherit]_vars

----------------------------------------------------------------------------
(* The engine with LayoutPlugin and the layout base, with one block or with  *)
(* text and two blocks, and child templates that extend base and define each *)
(* block or not, with text or with nothing between the tags.                 *)

\* H[[block:content]]V [[/block]][[block:side]]S[[/block]]
Lsides == <<Text(<<"H">>), Block("content", <<Text(<<"V", " ">>)>>),
            Block("side", <<Text(<<"S">>)>>)>>

\* what a child puts between [[block:name]] and [[/block]]: nothing, or C
BlockContents == {<<>>, <<Text(<<"C">>)>>}

\* the blocks a child defines for name: none, or one with each content
ChildBlocks(name) == {<<>>} \cup {<<Block(name, b)>> : b \in BlockContents}

\* [[extends:base]] followed by the blocks the child defines
ChildTemplates ==
    {<<Extends("base")>> \o c \o d : c \in ChildBlocks("content"), d \in ChildBlocks("side")}

RegisterBase == \E b \in {Lplain, Lsides} : Layout("base", b)

RenderChild == \E t \in ChildTemplates : Render(t, NoData)

NextBlocks == InstallLayout \/ RegisterBase \/ RenderChild \/ Clear

SpecBlocks == Init /\ [][NextBlocks]_vars

----------------------------------------------------------------------------
(* A parameterized reference rendered once by an engine that has the partial *)
(* h registered, h reading x and y: for every data object with x and y and   *)
(* every list of one or two parameters named x or z.  The engine has         *)
(* PartialsPlugin alone, or ParamsPartialsPlugin installed after it.         *)

\* new TemplateEngine(), as a plugin sees it
New == [context |-> [has |-> {}, preprocessors |-> <<>>, wrappers |-> <<>>,
                     extraParams |-> <<>>, extraArgs |-> <<>>],
        strict |-> "undefined", partialApi |-> <<>>, partials |-> <<>>,
        partialTemplates |-> [exists |-> FALSE, map |-> <<>>],
        layoutApi |-> 0, layouts |-> <<>>, threw |-> FALSE]

\* [[- x ]]|[[- y ]]
Treader == <<Raw("x"), Text(<<"|">>), Raw("y")>>

\* [[> h k="v" ... ]]|[[- x ]]
Tcaller(ps) == <<Params("h", ps), Text(<<"|">>), Raw("x")>>

ParamValues == {<<>>, <<"7">>, <<"0", "7">>, <<"b">>, <<"t", "r", "u", "e">>}

ParamLists == UNION {[1..k -> {"x", "z"} \X ParamValues] : k \in 1..2}

DataValues == {Str(<<"<">>), Str(<<"a">>), Val("number", <<"3">>)}

DataXY == {("x" :> v) @@ ("y" :> w) : v \in DataValues, w \in DataValues}

\* the engines after use(...) and partial('h', Treader), which every
\* decorator of engine.partial stores and passes on
Engines ==
    {[PartialsPlugin(New) EXCEPT !.partials[1] = "h" :> Treader],
     [ParamsPartialsPlugin(PartialsPlugin(New)) EXCEPT
         !.partials[1] = "h" :> Treader, !.partialTemplates.map = "h" :> Treader]}

\* the engine e and the template and data its caller is about to render
GivenEngine(e, tpl, data) ==
    /\ cache = <<>>
    /\ context = e.context
    /\ plugins = IF e.partialTemplates.exists
                 THEN <<Plugin("PartialsPlugin", ""), Plugin("ParamsPartialsPlugin", "")>>
                 ELSE <<Plugin("PartialsPlugin", "")>>
    /\ strict = e.strict
    /\ partialApi = e.partialApi
    /\ partials = e.partials
    /\ partialTemplates = e.partialTemplates
    /\ layoutApi = e.layoutApi
    /\ layouts = e.layouts
    /\ uses = Len(plugins)
    /\ host = NoHost
    /\ last = [NoCall EXCEPT !.op = "given", !.tpl = tpl, !.data = data]

InitOverlay ==
    \E e \in Engines, ps \in ParamLists, d \in DataXY : GivenEngine(e, Tcaller(ps), d)

NextOverlay == RenderGiven

SpecOverlay == InitOverlay /\ [][NextOverlay]_vars

----------------------------------------------------------------------------
(* The engine with PartialsPlugin and LayoutPlugin in either order and a     *)
(* dynamic reference [[> (sel) ]]: sel selects h, selects a partial never    *)
(* registered, or is a number; h is plain text, references a partial never   *)
(* registered, references itself, or extends the layout base, which is not   *)
(* registered, has a block, or extends itself.                               *)

Tmissing == <<Simple("c")>>       \* [[> c ]]
Tself == <<Simple("h")>>          \* [[> h ]] as the body of h

\* { sel: 'c' } and { sel: 3 }
DataMissing == "sel" :> Str(<<"c">>)
DataNumber == "sel" :> Val("number", <<"3">>)

RegisterSelected == \E b \in {Tplain, Tmissing, Tself, Tchild} : Partial("h", b)

RegisterBaseOrCycle == \E b \in {Lplain, Tchild} : Layout("base", b)

RenderDynamic == \E d \in {DataSel, DataMissing, DataNumber} : Render(Tdyn, d)

NextDynamic ==
    InstallLayoutOrPartials \/ RegisterSelected \/ RegisterBaseOrCycle \/ RenderDynamic \/ Clear

SpecDynamic == Init /\ [][NextDynamic]_vars

----------------------------------------------------------------------------
(* The engine with AsyncPlugin on a host that has require or not: renderFile *)
(* calls on one template file run side by side, each suspended at its two    *)
(* awaits, while the file is rewritten and render and clear are called.      *)
(* JavaScript runs every call to its next await before another one runs, so  *)
(* each action is one such run.                                              *)

\* what the file holds: A[[= x ]] or [[= x ]]
FileContents == {Tvar, Tesc}

AsyncData == {NoData, DataX}

InitAsync ==
    \E q \in BOOLEAN, t \in FileContents :
        Constructed /\ host = [NoHost EXCEPT !.require = q, !.file = t]

InstallAsync == uses < MaxInstalls /\ Use(Plugin("AsyncPlugin", ""))

\* engine.renderFile exists once AsyncPlugin is installed
HasRenderFile == \E i \in 1..Len(plugins) : plugins[i].name = "AsyncPlugin"

\* what a step of a renderFile call that does not settle it leaves in last
Awaiting == [NoCall EXCEPT !.op = "await", !.ret = "", !.was = CacheKeys(cache)]

\* fs.writeFile by the application
WriteFile ==
    /\ \E t \in FileContents \ {host.file} : host' = [host EXCEPT !.file = t]
    /\ last' = [NoCall EXCEPT !.op = "writeFile", !.ret = "", !.was = CacheKeys(cache)]
    /\ UNCHANGED <<cache, context, plugins, strict, partialApi, partials, partialTemplates,
                   layoutApi, layouts, uses>>

\* renderFile(path, data) up to its first await: without require the promise
\* is rejected, otherwise the call waits for import('fs/promises').  The call
\* is the i-th of those waiting; it takes the first place that is free.
RenderFile(i, data) ==
    /\ HasRenderFile
    /\ host.calls[i].pc = "idle"
    /\ \A j \in 1..(i - 1) : host.calls[j].pc # "idle"
    /\ IF host.require
       THEN /\ host' = [host EXCEPT !.calls[i] = [pc |-> "import", data |-> data, tpl |-> <<>>]]
            /\ last' = Awaiting
       ELSE /\ host' = host
            /\ last' = [NoCall EXCEPT
                          !.op = "renderFile", !.data = data, !.ok = FALSE, !.ret = "",
                          !.err = "renderFile only available in Node.js",
                          !.stage = "host", !.was = CacheKeys(cache)]
    /\ UNCHANGED <<cache, context, plugins, strict, partialApi, partials, partialTemplates,
                   layoutApi, layouts, uses>>

\* the import is there: the call asks for the file and waits again
Imported(i) ==
    /\ host.calls[i].pc = "import"
    /\ host' = [host EXCEPT !.calls[i].pc = "reading"]
    /\ last' = Awaiting
    /\ UNCHANGED <<cache, context, plugins, strict, partialApi, partials, partialTemplates,
                   layoutApi, layouts, uses>>

\* the host reads the file for the call
ReadFile(i) ==
    /\ host.calls[i].pc = "reading"
    /\ host' = [host EXCEPT !.calls[i].pc = "read", !.calls[i].tpl = host.file]
    /\ last' = Awaiting
    /\ UNCHANGED <<cache, context, plugins, strict, partialApi, partials, partialTemplates,
                   layoutApi, layouts, uses>>

\* a resumed call that renders what the file holds by now
resumedOnFile(call) == render(host.file, call.data, cache, 0)

\* return engine.render(tpl, data)
resumed(call) == render(call.tpl, call.data, cache, 0)

\* r is what the render of the resumed call did; the promise settles with it
Settled(i, r) ==
    /\ cache' = r.cache
    /\ host' = [host EXCEPT !.calls[i] = Idle]
    /\ last' = [NoCall EXCEPT
                  !.op = "renderFile", !.tpl = host.calls[i].tpl, !.data = host.calls[i].data,
                  !.ok = r.ok, !.out = r.out, !.err = r.err.msg, !.ret = "",
                  !.ev = r.ev, !.stage = r.stage, !.under = r.under, !.args = r.args,
                  !.was = CacheKeys(cache)]
    /\ UNCHANGED <<context, plugins, strict, partialApi, partials, partialTemplates,
                   layoutApi, layouts, uses>>

\* the call goes on after await fs.readFile
Resume(i) == host.calls[i].pc = "read" /\ Settled(i, resumed(host.calls[i]))

CallRenderFile == \E i \in 1..MaxCalls, d \in AsyncData : RenderFile(i, d)

StepRenderFile == \E i \in 1..MaxCalls : Imported(i) \/ ReadFile(i) \/ Resume(i)

\* render of a template no file holds, and of one the file may hold
RenderContent == \E t \in {Tplain, Tvar} : Render(t, DataX)

NextAsync ==
    InstallAsync \/ WriteFile \/ CallRenderFile \/ StepRenderFile \/ RenderContent \/ Clear

SpecAsync == InitAsync /\ [][NextAsync]_vars

----------------------------------------------------------------------------
(* The engine with PartialsPlugin and templates whose invocation renders     *)
(* other templates: the caller includes h with a parameter and reads x after *)
(* it; h is plain text or includes c with a parameter; c is plain text or    *)
(* selects a partial through sel, which no data object has.  A render nests  *)
(* at most two renders.                                                      *)

\* [[> h x="7" ]]|[[- x ]]
Tcalls == Tcaller(<<<<"x", <<"7">>>>>>)

RegisterNesting ==
    \/ \E b \in {Tplain, Tnext} : Partial("h", b)
    \/ \E b \in {Tplain, Tdyn} : Partial("c", b)

RenderNesting == \E d \in {NoData, DataX} : Render(Tcalls, d)

NextEvict == Install \/ RegisterNesting \/ RenderNesting \/ Clear

SpecEvict == Init /\ [][NextEvict]_vars

----------------------------------------------------------------------------
(* Reading the record of the last call *)

\* the templates the #compile calls of a render inserted, in order
RECURSIVE Inserted(_)
Inserted(ev) ==
    IF ev = <<>> THEN <<>>
    ELSE (IF Head(ev).built THEN <<Head(ev).tpl>> ELSE <<>>) \o Inserted(Tail(ev))

KeySeq(c) == [i \in 1..Len(c) |-> c[i].key]

\* the last n elements of a sequence
LastN(q, n) == SubSeq(q, Len(q) - n + 1, Len(q))

----------------------------------------------------------------------------
(* C1..C10 *)

\* C1: after any sequence of use, render and clear calls, failed renders
\* included, the cache holds at most maxCache entries.
C1_CacheBounded == Len(cache) <= maxCache

\* a render that failed in a nested render, after inserting into a full cache
C1_Witness ==
    /\ last.op = "render" /\ ~last.ok
    /\ Cardinality(last.was) = maxCache
    /\ Len(Inserted(last.ev)) >= 2
    /\ Len(cache) = maxCache

C3_CachedRoutineReused ==
    [][(last'.op = "render" /\ last'.tpl \in CacheKeys(cache)) =>
        /\ last'.ev # <<>>
        /\ last'.ev[1] = CompileEvent(last'.tpl, TRUE, 0, 0, FALSE, "", "",
                                      cache[CacheGet(cache, last'.tpl)].fn, <<>>)
    ]_vars

\* the last render hit an entry that a compile in the current state would not
\* produce (a plugin was installed or a partial registered in between)
C3_Witness ==
    /\ last.op = "render" /\ last.ev # <<>> /\ last.ev[1].hit
    /\ compile(last.tpl, <<>>).fn # last.ev[1].fn

\* C4 as claimed: registering a partial again changes the output of no cached
\* template that references a partial, in whatever mode.
C4_Claimed ==
    (last.op = "partial" /\ last.again) =>
        \A q \in DOMAIN last.before :
            q[1] \in CacheKeys(cache) => RenderValue(q[1], q[2]) = last.before[q]

\* C4 as amended: registering a partial again changes the output of no cached
\* template whose partial references are all simple ones.
C4_SimpleReferencesFrozen ==
    (last.op = "partial" /\ last.again) =>
        \A q \in DOMAIN last.before :
            (q[1] \in CacheKeys(cache) /\ Modes(q[1]) = {"simple"})
                => RenderValue(q[1], q[2]) = last.before[q]

\* h was registered again, as something else, while [[> h ]] is cached
C4_Witness ==
    /\ last.op = "partial" /\ last.ok /\ last.again
    /\ Tsimple \in CacheKeys(cache)
    /\ compile(Tsimple, <<>>).fn # cache[CacheGet(cache, Tsimple)].fn

\* what a partial body renders to with { x: '<' }
BodyOutput(b) == IF b = Tplain THEN <<"B">> ELSE <<"A", "&", "l", "t", ";">>

\* C5: the render of a previously cached template that follows clear() misses
\* the cache, runs every preprocessor and every wrapper and constructs a
\* routine, and its output is that of the partial and of the layout
\* registered at that moment.
C5_OutputReflectsRegistrations ==
    [][(last.op = "clear" /\ last'.op = "render" /\ last'.tpl \in last.was) =>
        /\ ~last'.ev[1].hit
        /\ last'.ev[1].threw = "" =>
              /\ last'.ev[1].pre = Len(ContextList("preprocessors"))
              /\ last'.ev[1].wrap = Len(ContextList("wrappers"))
              /\ last'.ev[1].built
        /\ (last'.tpl = Tsimple /\ "h" \in DOMAIN CurrentPartials) =>
              (last'.ok /\ last'.out = BodyOutput(CurrentPartials["h"]))
        /\ (last'.tpl = Tchild /\ "base" \in DOMAIN CurrentLayouts
                /\ CurrentLayouts["base"] = Lplain) =>
              (last'.ok /\ last'.out = <<"V">>)
    ]_vars

C8_CompilationFailureReachesCaller ==
    (last.op = "render" /\ last.stage = "compile" /\ last.ev[1].threw = "construct") =>
        last.err = "Template compilation failed: " \o last.ev[1].under

\* C9: when invoking the routine throws, render throws 'Template render
\* failed: ' followed by the underlying message and gives no output, whatever
\* the routine had put out before it threw.
C9_RenderFailureWrapped ==
    (last.op = "render" /\ last.stage = "invoke") =>
        /\ ~last.ok
        /\ last.out = <<>>
        /\ last.err = "Template render failed: " \o last.under
        /\ (last.tpl = Tvar /\ "x" \notin DOMAIN last.data) =>
              last.err = "Template render failed: x is not defined"

\* A[[= x ]] was rendered with data that has no x: the routine threw after
\* it had put out "A"
C9_Witness ==
    /\ last.op = "render" /\ last.tpl = Tvar /\ last.stage = "invoke"
    /\ "x" \notin DOMAIN last.data
    /\ ~last.ok

\* C10: whatever plugins were installed, in whatever order and how many
\* times, context.extraParams and context.extraArgs have the same length, in
\* every state and so at every invocation of a routine.
C10_ParamsMatchArgs ==
    Len(ContextList("extraParams")) = Len(ContextList("extraArgs"))

\* a routine was invoked after withParams(...) and another plugin were installed
C10_Witness ==
    /\ last.op = "render" /\ last.stage \in {"invoke", "done"}
    /\ Len(plugins) = MaxUse
    /\ \E i \in 1..Len(plugins) : plugins[i].name = "withParams"
    /\ Len(ContextList("extraArgs")) >= 4

\* C11: a render of a cached template invokes the routine with the parameter
\* list it was compiled with, whatever was installed since, and passes it the
\* argument list read from the context at that call; use() leaves every cached
\* routine as it is; a render that misses the cache (the first one, or the
\* one after clear()) compiles with the parameter list of that moment.
C11_ParamsFixedArgsLive ==
    [][/\ last'.op = "use" => cache' = cache
       /\ (last'.op = "render" /\ last'.stage \in {"invoke", "done"}) =>
             /\ last'.args = <<Ref("data", 0), Ref("escapeHTML", 0)>> \o ContextList("extraArgs")
             /\ IF last'.tpl \in CacheKeys(cache)
                THEN last'.ev[1].fn.params = CacheFn(cache, last'.tpl).params
                ELSE last'.ev[1].fn.params =
                        <<"data", "escapeHTML">> \o ContextList("extraParams")
    ]_vars

\* a cached routine was invoked with more arguments than it has parameters
C11_Witness ==
    /\ last.op = "render" /\ last.stage = "done" /\ last.ev[1].hit
    /\ Len(last.args) > Len(last.ev[1].fn.params)
    /\ Len(ContextList("extraParams")) + 2 = Len(last.args)

\* the hook calls of the compile event e, against the lists pps and ws the
\* context holds: the preprocessors first, in list order, each given what the
\* one before returned; then the scanner; then the wrappers, in list order,
\* each given what the one before returned and the scanner's code; then new
\* Function
HooksInOrder(e, pps, ws) ==
    /\ e.pre <= Len(pps)
    /\ e.pre <= Len(e.calls)
    /\ \A i \in 1..e.pre :
          /\ e.calls[i].hook = "preprocessors"
          /\ e.calls[i].i = i
          /\ e.calls[i].fn = pps[i]
          /\ e.calls[i].arg = IF i = 1 THEN e.tpl ELSE e.calls[i - 1].out
          /\ e.calls[i].ok = (i < e.pre \/ e.threw # "preprocessor")
    /\ IF e.threw = "preprocessor"
       THEN Len(e.calls) = e.pre
       ELSE /\ e.pre = Len(pps)
            /\ Len(e.calls) = Len(pps) + Len(ws) + 2
            /\ e.calls[e.pre + 1].hook = "scan"
            /\ e.calls[e.pre + 1].arg = IF e.pre = 0 THEN e.tpl ELSE e.calls[e.pre].out
            /\ \A j \in 1..Len(ws) :
                  /\ e.calls[e.pre + 1 + j].hook = "wrappers"
                  /\ e.calls[e.pre + 1 + j].i = j
                  /\ e.calls[e.pre + 1 + j].fn = ws[j]
                  /\ e.calls[e.pre + 1 + j].inner = e.calls[e.pre + 1].out
                  /\ e.calls[e.pre + 1 + j].arg =
                        IF j = 1 THEN FnCode("with", e.calls[e.pre + 1].out)
                        ELSE e.calls[e.pre + j].out
            /\ e.calls[Len(e.calls)].hook = "construct"
            /\ e.calls[Len(e.calls)].arg =
                  IF ws = <<>> THEN FnCode("with", e.calls[e.pre + 1].out)
                  ELSE e.calls[Len(e.calls) - 1].out

\* C12: every #compile call that misses the cache calls the preprocessors of
\* the context in list order, each with the previous one's output (the first
\* with the template), then scans, then calls the wrappers in list order, each
\* with the previous one's output and the scanner's code, then constructs the
\* routine from what the last wrapper returned.
C12_HooksInListOrder ==
    last.op = "render" =>
        \A k \in 1..Len(last.ev) :
            ~last.ev[k].hit =>
                HooksInOrder(last.ev[k], ContextList("preprocessors"), ContextList("wrappers"))

\* a compile ran two preprocessors, the first of which rewrote the template,
\* and a wrapper that replaced the code, and constructed the routine
C12_Witness ==
    /\ last.op = "render" /\ last.ev # <<>>
    /\ ~last.ev[1].hit /\ last.ev[1].built
    /\ last.ev[1].pre >= 2 /\ last.ev[1].wrap >= 1
    /\ last.ev[1].calls[1].out # last.ev[1].calls[1].arg
    /\ last.ev[1].calls[4].out # last.ev[1].calls[4].arg

\* C13: a use(plugin) step leaves the engine and its context exactly as one
\* call plugin(engine, context) leaves them, made before use returns; it
\* returns the engine when the plugin function returns and appends the plugin
\* to the plugin list; a render or a clear() changes nothing a plugin sets up,
\* so no plugin function runs again.
C13_PluginInvokedOnceInUse ==
    [][/\ last'.op = "use" =>
            /\ context' = Apply(last'.plugin, Engine).context
            /\ strict' = Apply(last'.plugin, Engine).strict
            /\ partialApi' = Apply(last'.plugin, Engine).partialApi
            /\ partials' = Apply(last'.plugin, Engine).partials
            /\ partialTemplates' = Apply(last'.plugin, Engine).partialTemplates
            /\ layoutApi' = Apply(last'.plugin, Engine).layoutApi
            /\ layouts' = Apply(last'.plugin, Engine).layouts
            /\ last'.ok = ~Apply(last'.plugin, Engine).threw
            /\ last'.ok => (last'.ret = "engine" /\ plugins' = Append(plugins, last'.plugin))
       /\ last'.op \in {"render", "clear"} =>
            UNCHANGED <<context, plugins, strict, partialApi, partials, partialTemplates,
                        layoutApi, layouts>>
    ]_vars

\* a template was rendered from the cache after two plugins were installed,
\* the setup of which is in the context once each
C13_Witness ==
    /\ last.op = "render" /\ last.ev # <<>> /\ last.ev[1].hit
    /\ plugins = <<Plugin("PartialsPlugin", ""), Plugin("HelpersPlugin", "")>>
    /\ Len(ContextList("extraParams")) = 3

\* the matched texts of the tokens, one after the other
RECURSIVE Sources(_)
Sources(tokens) ==
    IF tokens = <<>> THEN <<>> ELSE Head(tokens).src \o Sources(Tail(tokens))

\* the index of the first "]]" of s at or after q, 0 if there is none
Nearest(s, q) ==
    IF \E e \in q..(Len(s) - 1) : s[e] = "]" /\ s[e + 1] = "]"
    THEN Min({e \in q..(Len(s) - 1) : s[e] = "]" /\ s[e + 1] = "]"})
    ELSE 0

\* C14: the tokens of a template cover it: their matched texts, in order,
\* spell the template, and a template the scanner finds no marker in renders
\* to itself.
C14_TokensCoverTemplate ==
    (last.op = "render" /\ IsSource(last.tpl)) =>
        /\ Sources(tokenize(last.tpl)) = last.tpl[1].v
        /\ (\A i \in 1..Len(tokenize(last.tpl)) : tokenize(last.tpl)[i].k = "text") =>
              (last.ok /\ last.out = last.tpl[1].v)

\* the expression of token t of s as the text between the character after
\* "[[" and the nearest "]]", trimmed
Between(s, t) == TrimEnd(TrimStart(SubSeq(s, t.at + 3, Nearest(s, t.at + 3) - 1)))

\* C15: every marker token is escaped output when "=" follows "[[", raw
\* output when "-" does and a code statement otherwise, and the statement of
\* an output marker is made of the trimmed text between that "=" or "-" and
\* the nearest "]]".
C15_KindAndExpression ==
    (last.op = "render" /\ IsSource(last.tpl) /\ last.ev # <<>> /\ ~last.ev[1].hit) =>
        \A i \in 1..Len(tokenize(last.tpl)) :
            tokenize(last.tpl)[i].k # "text" =>
                /\ last.ev[1].calls[1].out[i].k =
                      (IF At(last.tpl[1].v, tokenize(last.tpl)[i].at + 2) = "=" THEN "esc"
                       ELSE IF At(last.tpl[1].v, tokenize(last.tpl)[i].at + 2) = "-" THEN "raw"
                       ELSE "code")
                /\ last.ev[1].calls[1].out[i].k \in {"esc", "raw"} =>
                      last.ev[1].calls[1].out[i].v = Between(last.tpl[1].v, tokenize(last.tpl)[i])

\* the entity the claim gives a character
Entity(ch) ==
    IF ch = "&" THEN <<"&", "a", "m", "p", ";">>
    ELSE IF ch = "<" THEN <<"&", "l", "t", ";">>
    ELSE IF ch = ">" THEN <<"&", "g", "t", ";">>
    ELSE IF ch = "\"" THEN <<"&", "q", "u", "o", "t", ";">>
    ELSE IF ch = "'" THEN <<"&", "#", "3", "9", ";">>
    ELSE <<ch>>

\* the characters of s replaced one by one, from the last to the first
RECURSIVE Replaced(_)
Replaced(s) ==
    IF s = <<>> THEN <<>>
    ELSE Replaced(SubSeq(s, 1, Len(s) - 1)) \o Entity(s[Len(s)])

\* C16: [[= x ]] renders the value of x with each of & < > " ' replaced by
\* its entity, each character of the value replaced once and no character of
\* an entity replaced again, every other character kept; [[- x ]] renders
\* the value unchanged.
C16_EscapedOncePerCharacter ==
    (last.op = "render" /\ last.tpl \in {Tesc, Traw} /\ "x" \in DOMAIN last.data
        /\ last.data["x"].ty = "string") =>
        /\ last.ok
        /\ last.tpl = Tesc => last.out = Replaced(last.data["x"].s)
        /\ last.tpl = Traw => last.out = last.data["x"].s

\* a value with an ampersand, a quote and a plain character was rendered escaped
C16_Witness ==
    /\ last.op = "render" /\ last.tpl = Tesc
    /\ last.data["x"].s = <<"&", "'", "a">>
    /\ last.out = <<"&", "a", "m", "p", ";", "&", "#", "3", "9", ";", "a">>

\* C17: a render of A[[= x ]] with a routine compiled under strict mode and a
\* data object without x fails with the error of the strict guard,
\* Variable "x" is not defined.
C17_StrictGuardError ==
    (last.op = "render" /\ last.tpl = Tvar /\ "x" \notin DOMAIN last.data
        /\ last.ev # <<>> /\ last.ev[1].fn.scope = "proxy") =>
        /\ ~last.ok
        /\ last.under = "Variable \"x\" is not defined"
        /\ last.err = "Template render failed: Variable \"x\" is not defined"

\* C18: a routine is compiled with the guarded lookup exactly when a strict
\* wrapper is installed and engine.strict is true at that compile; setting
\* engine.strict leaves the cache as it is, and a render that hits the cache
\* runs the cached routine with the lookup it was compiled with, whatever
\* engine.strict is by then.  Only a miss (after clear() or an eviction)
\* reads the flag again.
C18_StrictReadAtCompile ==
    [][/\ last'.op = "strict" => cache' = cache
       /\ (last'.op = "render" /\ last'.ev # <<>>) =>
             IF last'.tpl \in CacheKeys(cache)
             THEN /\ last'.ev[1].hit
                  /\ last'.ev[1].fn.scope = CacheFn(cache, last'.tpl).scope
             ELSE last'.ev[1].built =>
                    last'.ev[1].fn.scope =
                        (IF strict = "true" /\ ContextList("wrappers") # <<>>
                         THEN "proxy" ELSE "with")
    ]_vars

\* a template compiled while engine.strict was false was rendered from the
\* cache, with the default lookup, after engine.strict was set to true
C18_Witness ==
    /\ last.op = "render" /\ last.ok /\ last.ev # <<>> /\ last.ev[1].hit
    /\ last.ev[1].fn.scope = "with"
    /\ strict = "true" /\ ContextList("wrappers") # <<>>

\* C19: with PartialsPlugin installed, a render of [[> name ]] for a name
\* the registry does not hold fails with Partial "name" not found, whatever
\* the name and whatever else is registered.
C19_MissingPartialNamed ==
    \A n \in {"p1", "c", "my-card"} :
        (last.op = "render" /\ last.tpl = <<Simple(n)>> /\ partialApi # <<>>
            /\ n \notin DOMAIN CurrentPartials) =>
            /\ ~last.ok
            /\ last.under = "Partial \"" \o n \o "\" not found"

\* The chain of partials a reference to name starts in the registry reg: n
\* counts the partials the expansion enters, k those entered before name;
\* end tells how the chain ends: in a body of plain text ("text"), at a name
\* the registry lacks ("missing"), or not within the names there are ("more").
RECURSIVE Chain(_, _, _)
Chain(reg, name, k) ==
    IF k >= Len(ChainNames) THEN [n |-> k + 1, end |-> "more"]
    ELSE IF name \notin DOMAIN reg THEN [n |-> k, end |-> "missing"]
    ELSE IF reg[name] = Tplain THEN [n |-> k + 1, end |-> "text"]
    ELSE Chain(reg, reg[name][1].n, k + 1)

\* the registry the preprocessor that runs first resolves against
ResolvingRegistry == partials[ContextList("preprocessors")[1].inst]

\* C20: with PartialsPlugin installed, compiling [[> p1 ]] ends for every
\* registry: a chain of at most 10 partials that ends in plain text is
\* expanded into that text, and a chain of more than 10 partials, a cycle and
\* a self-reference included, fails with Partial nesting too deep (max 10
\* levels).
C20_ChainExpandedOrTooDeep ==
    (last.op = "render" /\ last.tpl = <<Simple("p1")>>
        /\ ContextList("preprocessors") # <<>>
        /\ last.ev # <<>> /\ ~last.ev[1].hit) =>
        /\ (Chain(ResolvingRegistry, "p1", 0).end = "text"
                /\ Chain(ResolvingRegistry, "p1", 0).n <= 10) =>
              (last.ok /\ last.out = <<"B">>)
        /\ Chain(ResolvingRegistry, "p1", 0).n > 10 =>
              (~last.ok /\ last.under = "Partial nesting too deep (max 10 levels)")

\* a chain of exactly ten partials was expanded
C20_Witness ==
    /\ last.op = "render" /\ last.tpl = <<Simple("p1")>> /\ last.ok
    /\ last.ev # <<>> /\ ~last.ev[1].hit
    /\ Chain(CurrentPartials, "p1", 0) = [n |-> 10, end |-> "text"]

\* a chain of eleven partials that ends in plain text was refused
C20_WitnessTooDeep ==
    /\ last.op = "render" /\ last.tpl = <<Simple("p1")>> /\ ~last.ok
    /\ Chain(CurrentPartials, "p1", 0) = [n |-> 11, end |-> "text"]

\* the reference of p1 to itself was refused
C20_WitnessSelf ==
    /\ last.op = "render" /\ last.tpl = <<Simple("p1")>> /\ ~last.ok
    /\ "p1" \in DOMAIN CurrentPartials /\ CurrentPartials["p1"] = <<Simple("p1")>>
    /\ last.under = "Partial nesting too deep (max 10 levels)"

\* the message of an error that k nested render calls have rethrown
RECURSIVE Rethrown(_, _)
Rethrown(msg, k) ==
    IF k = 0 THEN msg ELSE "Template render failed: " \o Rethrown(msg, k - 1)

\* how many render calls the last render nested inside itself (every #compile
\* call belongs to one render, and they nest in a chain)
Nesting == Len(last.ev) - 1

\* C21: a render whose parameterized or dynamic references nest renders never
\* nests more than one level past 10, and once nesting passes 10 levels it
\* fails with the depth-exceeded error Partial nesting too deep (max 10
\* levels).
C21_LateNestingGuarded ==
    (last.op = "render" /\ Nesting > MaxPartialDepth) =>
        /\ Nesting = MaxPartialDepth + 1
        /\ ~last.ok
        /\ \E k \in 1..(Nesting + 1) :
              last.err = Rethrown("Partial nesting too deep (max 10 levels)", k)

\* The inheritance chain a template that extends name starts in the registry
\* reg: n counts the layouts the resolution enters, k those entered before
\* name; end tells how the chain ends: in a layout that extends nothing
\* ("root"), at a name the registry lacks ("missing"), or not within the names
\* there are ("more": a cycle never ends).
RECURSIVE Inheritance(_, _, _)
Inheritance(reg, name, k) ==
    IF k >= Len(LayoutChain) THEN [n |-> k + 1, end |-> "more"]
    ELSE IF name \notin DOMAIN reg THEN [n |-> k, end |-> "missing"]
    ELSE IF reg[name] = Tplain THEN [n |-> k + 1, end |-> "root"]
    ELSE Inheritance(reg, reg[name][1].n, k + 1)

\* the registry the preprocessor that runs first resolves against
ResolvingLayouts == layouts[ContextList("preprocessors")[1].inst]

\* C22: with LayoutPlugin installed, compiling [[extends:l1]] ends for every
\* registry: a chain of at most 10 layouts that ends in a layout extending
\* nothing resolves to that layout, and a chain of more than 10 layouts, a
\* cycle included, fails with Layout inheritance too deep (max 10 levels).
C22_InheritanceResolvedOrTooDeep ==
    (last.op = "render" /\ last.tpl = <<Extends("l1")>>
        /\ ContextList("preprocessors") # <<>>
        /\ last.ev # <<>> /\ ~last.ev[1].hit) =>
        /\ (Inheritance(ResolvingLayouts, "l1", 0).end = "root"
                /\ Inheritance(ResolvingLayouts, "l1", 0).n <= 10) =>
              (last.ok /\ last.out = <<"B">>)
        /\ Inheritance(ResolvingLayouts, "l1", 0).n > 10 =>
              (~last.ok
               /\ last.under = "Layout resolution failed: Layout inheritance too deep (max 10 levels)")

\* a chain of exactly ten layouts was resolved, and one of eleven refused
C22_Witness ==
    /\ last.op = "render" /\ last.tpl = <<Extends("l1")>> /\ last.ok
    /\ last.ev # <<>> /\ ~last.ev[1].hit
    /\ Inheritance(CurrentLayouts, "l1", 0) = [n |-> 10, end |-> "root"]

\* a chain of eleven layouts that ends in a root was refused
C22_WitnessTooDeep ==
    /\ last.op = "render" /\ last.tpl = <<Extends("l1")>> /\ ~last.ok
    /\ Inheritance(CurrentLayouts, "l1", 0) = [n |-> 11, end |-> "root"]

\* the cycle l1 -> l2 -> l1 was refused
C22_WitnessCycle ==
    /\ last.op = "render" /\ last.tpl = <<Extends("l1")>> /\ ~last.ok
    /\ "l2" \in DOMAIN CurrentLayouts /\ CurrentLayouts["l2"] = <<Extends("l1")>>
    /\ last.under = "Layout resolution failed: Layout inheritance too deep (max 10 levels)"

\* the characters of a run of text
RECURSIVE Characters(_)
Characters(body) ==
    IF body = <<>> THEN <<>> ELSE Head(body).v \o Characters(Tail(body))

\* the names of the blocks a template defines
Defines(template) == {template[i].n : i \in {j \in 1..Len(template) : template[j].k = "block"}}

\* what the template puts between the tags of its block name
Content(template, name) ==
    template[CHOOSE i \in 1..Len(template) :
                template[i].k = "block" /\ template[i].n = name].p

\* the layout with every block the child defines replaced by the child's
\* content and every other block by its own content, surrounding blanks
\* removed
RECURSIVE Filled(_, _)
Filled(layout, child) ==
    IF layout = <<>> THEN <<>>
    ELSE IF Head(layout).k # "block" THEN Head(layout).v \o Filled(Tail(layout), child)
    ELSE IF Head(layout).n \in Defines(child)
    THEN Characters(trim(Content(child, Head(layout).n))) \o Filled(Tail(layout), child)
    ELSE Characters(trim(Head(layout).p)) \o Filled(Tail(layout), child)

\* C23: the output of a template that extends the layout base is the layout
\* with every block the child defines replaced by the child's content, the
\* empty content included, and every block the child does not define left
\* with the layout's default content.
C23_ChildBlocksReplaceDefaults ==
    (last.op = "render" /\ last.tpl \in ChildTemplates
        /\ ContextList("preprocessors") # <<>>
        /\ "base" \in DOMAIN ResolvingLayouts
        /\ last.ev # <<>> /\ ~last.ev[1].hit) =>
        (last.ok /\ last.out = Filled(ResolvingLayouts["base"], last.tpl))

\* the value the parameters give the key: that of the last parameter of the
\* name, as the plugin reads it (a number, a boolean or a string)
Given24(ps, key) ==
    parseParam(ps[CHOOSE i \in 1..Len(ps) :
                     ps[i][1] = key /\ \A j \in (i + 1)..Len(ps) : ps[j][1] # key][2])

\* the value the partial has to see under the key
Overlaid(data, ps, key) ==
    IF \E i \in 1..Len(ps) : ps[i][1] = key THEN Given24(ps, key) ELSE data[key]

\* C24: the partial of [[> h k="v" ... ]] is rendered with the caller's data
\* overlaid by the parameters: it reads the parameter under a key the
\* parameters name and the caller's value under every other key, and the
\* caller reads its own value after the reference.
C24_ParametersOverlayData ==
    (last.op = "render" /\ last.tpl # <<>> /\ last.tpl[1].k = "params"
        /\ last.tpl = Tcaller(last.tpl[1].p)) =>
        /\ last.ok
        /\ last.out = Overlaid(last.data, last.tpl[1].p, "x").s \o <<"|">>
                        \o Overlaid(last.data, last.tpl[1].p, "y").s \o <<"|">>
                        \o last.data["x"].s

\* a parameter named x, after one named z, replaced the caller's x
C24_Witness ==
    /\ last.op = "render" /\ last.ok
    /\ last.tpl = Tcaller(<<<<"z", <<"b">>>>, <<"x", <<"7">>>>>>)
    /\ last.data = ("x" :> Str(<<"<">>)) @@ ("y" :> Str(<<"a">>))
    /\ last.out = <<"7", "|", "a", "|", "<">>

\* the protocol errors a preprocessor raises: not found and depth exceeded
ProtocolErrors ==
    {"Partial \"c\" not found", "Partial nesting too deep (max 10 levels)",
     "Layout resolution failed: Layout \"base\" not found",
     "Layout resolution failed: Layout inheritance too deep (max 10 levels)"}

\* C25: a render of [[> (sel) ]] whose selector is not a string gives the
\* empty string; one whose selected partial is not registered, or in which
\* compiling the selected partial raised a protocol error (partial or layout
\* not found, nesting or inheritance too deep), throws to the caller.
C25_ProtocolErrorsRethrown ==
    (last.op = "render" /\ last.tpl = Tdyn /\ Len(last.ev) >= 1 /\ last.ev[1].built
        /\ last.ev[1].fn.code = <<Marker("calld", "sel", <<>>, <<>>, "__e", "__p")>>) =>
        /\ last.data["sel"].ty # "string" => (last.ok /\ last.out = <<>>)
        /\ (last.data["sel"].ty = "string" /\ Len(last.ev) = 1) =>
              (~last.ok /\ last.under = "Partial \"" \o Join(last.data["sel"].s) \o "\" not found")
        /\ \A i \in 2..Len(last.ev) : last.ev[i].under \in ProtocolErrors => ~last.ok

\* C26: however renderFile calls interleave with each other, with rewrites of
\* the file and with render and clear, a renderFile that read the file
\* settles with what render gives for the content it read and its own data,
\* whatever the cache held and whatever the file holds by then, and the cache
\* never holds more than maxCache entries.
C26_RenderFileRendersWhatItRead ==
    /\ Len(cache) <= maxCache
    /\ (last.op = "renderFile" /\ last.stage # "host") =>
          [ok |-> last.ok, out |-> last.out, err |-> last.err]
              = Observed(render(last.tpl, last.data, <<>>, 0))

\* a call settled with the content it read while the file held another one,
\* a second call was waiting, and the cache was full
C26_Witness ==
    /\ last.op = "renderFile" /\ last.ok /\ last.tpl = Tvar /\ last.out # <<>>
    /\ host.file # last.tpl
    /\ \E i \in 1..MaxCalls : host.calls[i].pc = "read" /\ host.calls[i].tpl = host.file
    /\ Len(cache) = maxCache

\* C27: a render whose own #compile call fails, because a preprocessor throws
\* or because the routine cannot be constructed, leaves the cache exactly as
\* it was before the call: the same entries in the same order, nothing
\* inserted and nothing evicted, also when the cache is full.
C27_FailedCompileLeavesCache ==
    [][(last'.op = "render" /\ last'.stage = "compile") => cache' = cache]_vars

\* the construction of a routine failed on a full cache
C27_Witness ==
    /\ last.op = "render" /\ last.stage = "compile" /\ last.ev[1].threw = "construct"
    /\ Len(cache) = maxCache

\* a preprocessor threw on a full cache
C27_WitnessPreprocessor ==
    /\ last.op = "render" /\ last.stage = "compile" /\ last.ev[1].threw = "preprocessor"
    /\ Len(cache) = maxCache

\* the next call renders the template of the last one from the cache, running
\* no preprocessor, no scan, no wrapper and no construction
HitsAgain ==
    (last'.op = "render" /\ last'.tpl = last.tpl) =>
        /\ last'.ev[1].hit /\ last'.ev[1].calls = <<>>
        /\ last'.ev[1].fn = last.ev[1].fn
        /\ last'.stage \in {"done", "invoke"}

\* C28 as claimed: after a render that constructed its routine and whose
\* invocation threw, the template is cached, and a render of it that follows
\* uses the cached routine without compiling.
C28_FailedInvocationKeepsRoutine ==
    [][(last.op = "render" /\ last.stage = "invoke" /\ ~last.ev[1].hit) =>
          (CacheHas(cache, last.tpl) /\ HitsAgain)]_vars

\* C28 amended: the same, when the renders nested in the failed invocation
\* inserted fewer than maxCache templates after the routine's own insertion.
C28_KeptUnlessNestedRendersEvict ==
    [][(last.op = "render" /\ last.stage = "invoke" /\ ~last.ev[1].hit
            /\ Len(Inserted(last.ev)) <= maxCache) =>
          (CacheHas(cache, last.tpl) /\ HitsAgain)]_vars

\* an invocation that threw after a nested render left its routine cached
C28_Witness ==
    /\ last.op = "render" /\ last.stage = "invoke" /\ ~last.ev[1].hit
    /\ Len(Inserted(last.ev)) = maxCache
    /\ CacheHas(cache, last.tpl)

\* C30: a render whose invocation renders other templates, which are
\* inserted into the cache and may evict the routine that is running, goes on
\* with the routine #compile returned: when it returns, the statements after
\* the nested render have run (the output ends with | and the caller's x,
\* and a caller without x does not return); the cache never holds more than
\* maxCache entries.
C30_EvictedRoutineRunsOn ==
    /\ Len(cache) <= maxCache
    /\ (last.op = "render" /\ last.tpl = Tcalls /\ last.ok) =>
          /\ "x" \in DOMAIN last.data
          /\ Len(last.out) >= 2
          /\ LastN(last.out, 2) = <<"|">> \o last.data["x"].s

\* the nested renders evicted the entry of the template being rendered, and
\* the render completed with the output of its last statement
C30_Witness ==
    /\ last.op = "render" /\ last.tpl = Tcalls /\ last.ok
    /\ last.ev[1].built /\ Len(last.ev) = 3
    /\ ~CacheHas(cache, Tcalls) /\ Len(cache) = maxCache
    /\ last.out = <<"B", "|", "<">>

----------------------------------------------------------------------------
(* C29 *)

\* the places of one plugin's preprocessors in context.preprocessors
PlacesOf(ref) ==
    {i \in 1..Len(ContextList("preprocessors")) : ContextList("preprocessors")[i].ref = ref}

\* the registry the first preprocessor of a plugin resolves against
FirstLayouts == layouts[ContextList("preprocessors")[Min(PlacesOf("LayoutPlugin"))].inst]
FirstPartials == partials[ContextList("preprocessors")[Min(PlacesOf("PartialsPlugin"))].inst]

\* a compiling render of [[extends:base]] on an engine with both plugins,
\* where base is [[block:content]][[> h ]][[/block]] and h is registered
PartialInBlock ==
    /\ last.op = "render" /\ last.tpl = Tchild /\ ~last.ev[1].hit
    /\ PlacesOf("LayoutPlugin") # {} /\ PlacesOf("PartialsPlugin") # {}
    /\ "base" \in DOMAIN FirstLayouts /\ FirstLayouts["base"] = Lpartial
    /\ "h" \in DOMAIN FirstPartials

\* C29: in whatever order LayoutPlugin and PartialsPlugin were installed,
\* every layout preprocessor stands before every partials preprocessor in
\* context.preprocessors; a render of a template that extends a layout whose
\* block references a partial resolves the inheritance first and then expands
\* the reference, so that its output is that of the partial's body.
C29_LayoutBeforePartials ==
    /\ \A i \in PlacesOf("LayoutPlugin"), j \in PlacesOf("PartialsPlugin") : i < j
    /\ PartialInBlock =>
          /\ last.ok /\ last.out = BodyOutput(FirstPartials["h"])
          /\ last.ev[1].pre = Len(ContextList("preprocessors"))

\* PartialsPlugin was installed first, LayoutPlugin after it
C29_Witness ==
    /\ PartialInBlock
    /\ plugins = <<Plugin("PartialsPlugin", ""), Plugin("LayoutPlugin", "")>>
    /\ last.ok /\ last.out \in {<<"B">>, <<"A", "&", "l", "t", ";">>}

\* LayoutPlugin was installed first, PartialsPlugin after it
C29_WitnessLayoutFirst ==
    /\ PartialInBlock
    /\ plugins = <<Plugin("LayoutPlugin", ""), Plugin("PartialsPlugin", "")>>
    /\ last.ok

====
